---- MODULE Spec2Model ----
(***************************************************************************)
(* Streaming spill-log queries of SimpleGem5Reader                         *)
(* (src/backend/utils/simple_reader.py): the line scanner, search / count  *)
(* / sample / range, the histogram builder and the spill analysis.         *)
(*                                                                         *)
(* A text is a sequence of one-character strings.  A raw line of the log   *)
(* is held as the sequence of its comma-separated parts, which is what     *)
(* line.split(',') returns (split and join are inverse to each other).     *)
(* Python's 0-based parts[k] is Part(parts, k).                            *)
(***************************************************************************)
EXTENDS Integers, Sequences, FiniteSets, TLC

-----------------------------------------------------------------------------
(* Bounds of the model *)

\* longest log file, in raw lines
MaxLines == 3

\* largest offset / limit / max_scan_lines / n argument tried
MaxArg == 2

-----------------------------------------------------------------------------
(* Texts *)

None == <<>>
Some(v) == <<v>>

Min(a, b) == IF a <= b THEN a ELSE b
Max(a, b) == IF a >= b THEN a ELSE b

T1(a) == <<a>>
SPILL == <<"S", "P", "I", "L", "L">>

Digits == <<"0", "1", "2", "3", "4", "5", "6", "7", "8", "9">>
IsDigit(c) == \E d \in 1..10 : Digits[d] = c
DigitVal(c) == (CHOOSE d \in 1..10 : Digits[d] = c) - 1
IsSpace(c) == c \in {" ", "\t", "\r", "\n"}

UpperChars == <<"A", "B", "C", "D", "E", "F", "X">>
LowerChars == <<"a", "b", "c", "d", "e", "f", "x">>
\* str.lower() on one character
LowerChar(c) ==
    IF \E u \in 1..Len(UpperChars) : UpperChars[u] = c
    THEN LowerChars[CHOOSE u \in 1..Len(UpperChars) : UpperChars[u] = c]
    ELSE c
\* str.lower()
Lower(t) == [i \in 1..Len(t) |-> LowerChar(t[i])]

\* str.find(t) != -1
Contains(s, t) ==
    \E i \in 0..(Len(s) - Len(t)) : SubSeq(s, i + 1, i + Len(t)) = t

\* '*' in term
HasStar(t) == \E i \in 1..Len(t) : t[i] = "*"

RECURSIVE ReplaceStar(_)
\* term.replace('*', '.*')
ReplaceStar(t) ==
    IF t = <<>> THEN <<>>
    ELSE (IF Head(t) = "*" THEN <<".", "*">> ELSE <<Head(t)>>) \o ReplaceStar(Tail(t))

RECURSIVE LStrip(_)
LStrip(t) == IF t # <<>> /\ IsSpace(Head(t)) THEN LStrip(Tail(t)) ELSE t
RECURSIVE RStrip(_)
RStrip(t) ==
    IF t # <<>> /\ IsSpace(t[Len(t)]) THEN RStrip(SubSeq(t, 1, Len(t) - 1)) ELSE t

RECURSIVE DigitsValue(_)
DigitsValue(t) ==
    IF t = <<>> THEN 0
    ELSE 10 * DigitsValue(SubSeq(t, 1, Len(t) - 1)) + DigitVal(t[Len(t)])

\* int(text): surrounding whitespace is ignored, an optional sign, then one
\* or more decimal digits; anything else raises ValueError (ok = FALSE)
ParseInt(text) ==
    LET t == RStrip(LStrip(text))
        signed == t # <<>> /\ Head(t) \in {"-", "+"}
        body == IF signed THEN Tail(t) ELSE t
        good == body # <<>> /\ \A i \in 1..Len(body) : IsDigit(body[i])
    IN  IF ~good THEN [ok |-> FALSE, val |-> 0]
        ELSE [ok |-> TRUE,
              val |-> IF signed /\ Head(t) = "-" THEN 0 - DigitsValue(body)
                      ELSE DigitsValue(body)]

RECURSIVE Str(_)
\* str(n) for n >= 0
Str(n) == IF n < 10 THEN <<Digits[n + 1]>> ELSE Str(n \div 10) \o <<Digits[(n % 10) + 1]>>

-----------------------------------------------------------------------------
(* Regular expressions: the fragment of Python's re that the modelled      *)
(* terms use -- literal characters, '.', a postfix '*', and an unclosed    *)
(* '(' as the pattern that does not compile.                               *)

\* re.compile(t) succeeds: no unclosed group, and '*' has something to repeat
ReCompiles(t) ==
    /\ \A i \in 1..Len(t) : t[i] # "("
    /\ \A i \in 1..Len(t) : t[i] = "*" => (i > 1 /\ t[i - 1] # "*")

\* one pattern atom against one character, re.IGNORECASE
AtomMatch(a, c) == a = "." \/ LowerChar(a) = LowerChar(c)

RECURSIVE ReMatch(_, _, _, _)
\* pattern re from its i-th atom matches s from position j on
ReMatch(re, i, s, j) ==
    IF i > Len(re) THEN TRUE
    ELSE IF i < Len(re) /\ re[i + 1] = "*"
    THEN \E k \in j..(Len(s) + 1) :
            /\ \A m \in j..(k - 1) : AtomMatch(re[i], s[m])
            /\ ReMatch(re, i + 2, s, k)
    ELSE /\ j <= Len(s)
         /\ AtomMatch(re[i], s[j])
         /\ ReMatch(re, i + 1, s, j + 1)

\* pattern.search(s) is not None
ReSearch(re, s) == \E j \in 1..(Len(s) + 1) : ReMatch(re, 1, s, j)

-----------------------------------------------------------------------------
(* Lines of the log *)

Part(parts, k) == parts[k + 1]

\* line.startswith('SPILL,')
StartsWithSpill(parts) == Len(parts) >= 2 /\ parts[1] = SPILL

\* faulty variant, for sensitivity of the property: the prefix of the line is not looked at
IterYields_AnyLong(parts) == Len(parts) >= 9

\* _iter_spill_lines yields this line
IterYields(parts) == StartsWithSpill(parts) /\ Len(parts) >= 9

\* the raw line number of the next line the scanner yields after raw line
\* pos, 0 when the file is exhausted first
NextYield(f, pos) ==
    LET later == {k \in (pos + 1)..Len(f) : IterYields(f[k])}
    IN  IF later = {} THEN 0 ELSE CHOOSE k \in later : \A m \in later : k <= m

SpillLine(store_pc, load_pc, mem, st, lt, td, sic, lic) ==
    <<SPILL, store_pc, load_pc, mem, st, lt, td, sic, lic>>

\* "# note"
CommentLine == <<(<<"#">>)>>
\* "SPILL,a,b": too few fields
ShortLine == <<SPILL, T1("a"), T1("b")>>
\* "O,a,b,c,1,2,1,0,1": nine fields of a record that is not a SPILL record
OtherLine ==
    <<T1("O"), T1("a"), T1("b"), T1("c"), T1("1"), T1("2"), T1("1"), T1("0"), T1("1")>>
GoodA == SpillLine(T1("a"), T1("b"), T1("c"), T1("1"), T1("2"), T1("1"), T1("0"), T1("1"))
GoodB == SpillLine(T1("B"), T1("b"), T1("d"), T1("2"), T1("4"), T1("2"), T1("2"), T1("3"))
\* store_tick is not a number
BadTick == SpillLine(T1("a"), T1("b"), T1("c"), T1("x"), T1("2"), T1("1"), T1("1"), T1("1"))
\* store_inst_count is not a number
BadCount == SpillLine(T1("a"), T1("b"), T1("c"), T1("1"), T1("2"), T1("1"), T1("x"), T1("1"))

GoodNeg == SpillLine(T1("a"), T1("b"), T1("c"), T1("3"), T1("2"), <<"-", "1">>, T1("1"), T1("1"))
\* store_tick is not a number; the address and the duration are its own
BadTickLate == SpillLine(T1("e"), T1("f"), T1("e"), T1("x"), T1("2"), T1("9"), T1("1"), T1("1"))

\* " SPILL,a,b,d,..."; a good record behind a blank
IndentedGood ==
    <<(<<" ">> \o SPILL), T1("a"), T1("b"), T1("d"), T1("1"), T1("5"), T1("4"), T1("1"), T1("1")>>

\* store_pc "a*" and memory_address "(*a": fields that hold the characters
\* a pattern gives a meaning to
StarLine ==
    SpillLine(<<"a", "*">>, T1("b"), <<"(", "*", "a">>, T1("1"), T1("2"), T1("1"), T1("0"), T1("1"))

\* line.strip() as it shows in the parts: whitespace goes from the front of
\* the first part and from the end of the last one
StripParts(parts) ==
    IF parts = <<>> THEN parts
    ELSE LET front == [parts EXCEPT ![1] = LStrip(@)]
         IN  [front EXCEPT ![Len(parts)] = RStrip(@)]

RECURSIVE SeqsUpTo(_, _)
\* the sequences over S of length at most n
SeqsUpTo(S, n) ==
    IF n = 0 THEN {<<>>}
    ELSE LET shorter == SeqsUpTo(S, n - 1)
         IN  shorter \cup {Append(s, x) : s \in {t \in shorter : Len(t) = n - 1}, x \in S}

\* every integer field (parts[4..8]) of every yielded line parses, and no
\* SPILL line is too short
WellFormed(f) ==
    \A k \in 1..Len(f) :
        StartsWithSpill(f[k]) =>
            /\ Len(f[k]) >= 9
            /\ \A p \in 4..8 : ParseInt(Part(f[k], p)).ok

-----------------------------------------------------------------------------
VARIABLES
    file,         \* the log: a sequence of raw lines, each split at ','
    pc,           \* where the running call is: "idle", the operation, "done"
    args,         \* the arguments of the running call
    line_num,     \* raw lines the scanner of the running call has consumed
    scanned,      \* local of search / count / sample / range
    items,        \* local of search / range
    next_offset,  \* local of search / range
    broke,        \* the scan loop was left by break
    pattern,      \* compiled pattern of search / count, or None
    count,        \* local of count
    reservoir,    \* local of sample and of the sampled analysis
    delivered,    \* local of range
    buckets,      \* local of _create_histogram_buckets
    total_spills,         \* get_spill_analysis_data: the sizing pass's count
    event_idx,            \* idx and the other locals of _get_spill_analysis_sampled
    duration_sum,
    duration_min,
    duration_max,
    unique_memory_addrs,
    unique_store_pcs,
    unique_load_pcs,
    result,       \* what the finished call returned
    io_failed,    \* a read of the running call raised (OSError, UnicodeDecodeError)
    exists,       \* os.path.exists(spill_log_path)
    suspended,    \* the locals of a second call, in a thread that is not running
    previous,     \* what the client's earlier call returned
    pages,        \* items gathered by a client that follows next_offset
    client        \* what the client is doing: "none", "paging", "counting", ...

\* the locals of the spill analysis
avars == <<total_spills, event_idx, duration_sum, duration_min, duration_max,
           unique_memory_addrs, unique_store_pcs, unique_load_pcs>>

\* what no step of a call changes
fixed == <<file, exists, suspended>>

vars == <<fixed, pc, args, line_num, scanned, items, next_offset, broke,
          pattern, count, reservoir, delivered, buckets, result, io_failed,
          pages, client, previous, avars>>

\* float('inf')
Inf == <<>>

NoArgs == [op |-> "none"]
NoResult == [kind |-> "none"]
\* an exception left the call
Raised == [kind |-> "raised"]

\* the next line the scanner of the running call yields, 0 when it has
\* ended: no file (line 808), a read that raised (line 818), or end of file
ScanNext ==
    IF exists /\ ~io_failed THEN NextYield(file, line_num) ELSE 0

\* the locals every call starts from
FreshLocals ==
    [pc |-> "idle", args |-> NoArgs, line_num |-> 0, scanned |-> 0,
     items |-> <<>>, next_offset |-> None, broke |-> FALSE, pattern |-> None,
     count |-> 0, reservoir |-> <<>>, delivered |-> 0, buckets |-> <<>>,
     result |-> NoResult, io_failed |-> FALSE,
     total_spills |-> 0, event_idx |-> 0, duration_sum |-> 0,
     duration_min |-> Inf, duration_max |-> 0, unique_memory_addrs |-> {},
     unique_store_pcs |-> {}, unique_load_pcs |-> {}]

\* the locals of the running call
Locals ==
    [pc |-> pc, args |-> args, line_num |-> line_num, scanned |-> scanned,
     items |-> items, next_offset |-> next_offset, broke |-> broke,
     pattern |-> pattern, count |-> count, reservoir |-> reservoir,
     delivered |-> delivered, buckets |-> buckets, result |-> result,
     io_failed |-> io_failed,
     total_spills |-> total_spills, event_idx |-> event_idx,
     duration_sum |-> duration_sum, duration_min |-> duration_min,
     duration_max |-> duration_max, unique_memory_addrs |-> unique_memory_addrs,
     unique_store_pcs |-> unique_store_pcs, unique_load_pcs |-> unique_load_pcs]

InitLocals ==
    /\ io_failed = FALSE
    /\ suspended = FreshLocals
    /\ previous = NoResult
    /\ pc = "idle"
    /\ args = NoArgs
    /\ line_num = 0
    /\ scanned = 0
    /\ items = <<>>
    /\ next_offset = None
    /\ broke = FALSE
    /\ pattern = None
    /\ count = 0
    /\ reservoir = <<>>
    /\ delivered = 0
    /\ buckets = <<>>
    /\ total_spills = 0
    /\ event_idx = 0
    /\ duration_sum = 0
    /\ duration_min = Inf
    /\ duration_max = 0
    /\ unique_memory_addrs = {}
    /\ unique_store_pcs = {}
    /\ unique_load_pcs = {}
    /\ result = NoResult
    /\ pages = <<>>
    /\ client = "none"

-----------------------------------------------------------------------------
(* The predicate of search_spills and count_spills *)

\* faulty variant, for sensitivity of the property: a use_regex term that does not compile is
\* tried again as a wildcard
CompilePattern_RetryWildcard(term, use_regex) ==
    IF use_regex /\ term # <<>> /\ ReCompiles(term) THEN Some(term)
    ELSE IF term # <<>> /\ HasStar(term)
    THEN (IF ReCompiles(ReplaceStar(term)) THEN Some(ReplaceStar(term)) ELSE None)
    ELSE None

\* the try / except around re.compile: the compiled pattern or None
CompilePattern(term, use_regex) ==
    IF use_regex /\ term # <<>>
    THEN (IF ReCompiles(term) THEN Some(term) ELSE None)
    ELSE IF term # <<>> /\ HasStar(term)
    THEN (IF ReCompiles(ReplaceStar(term)) THEN Some(ReplaceStar(term)) ELSE None)
    ELSE None

\* faulty variant, for sensitivity of the property: field 'all' looks at the instruction
\* counts too
FieldCandidates_WithCounts(field, parts) ==
       (IF field \in {"all", "pc", "store_pc"} THEN <<Part(parts, 1)>> ELSE <<>>)
    \o (IF field \in {"all", "pc", "load_pc"} THEN <<Part(parts, 2)>> ELSE <<>>)
    \o (IF field \in {"all", "mem"} THEN <<Part(parts, 3)>> ELSE <<>>)
    \o (IF field \in {"all", "time"}
        THEN <<Part(parts, 4), Part(parts, 5), Part(parts, 6)>> ELSE <<>>)
    \o (IF field = "all" THEN <<Part(parts, 7), Part(parts, 8)>> ELSE <<>>)

\* the candidate strings both matchers share
FieldCandidates(field, parts) ==
       (IF field \in {"all", "pc", "store_pc"} THEN <<Part(parts, 1)>> ELSE <<>>)
    \o (IF field \in {"all", "pc", "load_pc"} THEN <<Part(parts, 2)>> ELSE <<>>)
    \o (IF field \in {"all", "mem"} THEN <<Part(parts, 3)>> ELSE <<>>)
    \o (IF field \in {"all", "time"}
        THEN <<Part(parts, 4), Part(parts, 5), Part(parts, 6)>> ELSE <<>>)

\* the last two lines of either matches()
AnyCandidateMatches(candidates, term, pat) ==
    IF pat # None
    THEN \E i \in 1..Len(candidates) : ReSearch(pat[1], candidates[i])
    ELSE \E i \in 1..Len(candidates) : Contains(Lower(candidates[i]), Lower(term))

\* matches() of search_spills: field 'id' tests str(parts[-1])
SearchMatches(term, field, pat, parts) ==
    IF term = <<>> THEN TRUE
    ELSE AnyCandidateMatches(
            FieldCandidates(field, parts)
                \o (IF field = "id" THEN <<parts[Len(parts)]>> ELSE <<>>),
            term, pat)

\* matches() of count_spills: no candidate for field 'id'
CountMatches(term, field, pat, parts) ==
    IF term = <<>> THEN TRUE
    ELSE AnyCandidateMatches(FieldCandidates(field, parts), term, pat)

-----------------------------------------------------------------------------
(* The dict every query builds for a yielded line *)

\* int(parts[4]), int(parts[5]) or int(parts[6]) raises ValueError
ItemRaises(parts) ==
    \E p \in 4..6 : ~ParseInt(Part(parts, p)).ok

\* faulty variant, for sensitivity of the property: the lines are numbered from 0
ItemOf_ZeroBased(idx, parts) ==
    [id |-> Str(idx - 1),
     pc |-> Part(parts, 1),
     load_pc |-> Part(parts, 2),
     store_pc |-> Part(parts, 1),
     memory_address |-> Part(parts, 3),
     store_tick |-> ParseInt(Part(parts, 4)).val,
     load_tick |-> ParseInt(Part(parts, 5)).val,
     duration |-> ParseInt(Part(parts, 6)).val]

ItemOf(idx, parts) ==
    [id |-> Str(idx),
     pc |-> Part(parts, 1),
     load_pc |-> Part(parts, 2),
     store_pc |-> Part(parts, 1),
     memory_address |-> Part(parts, 3),
     store_tick |-> ParseInt(Part(parts, 4)).val,
     load_tick |-> ParseInt(Part(parts, 5)).val,
     duration |-> ParseInt(Part(parts, 6)).val]

-----------------------------------------------------------------------------
(* search_spills *)

\* faulty variant, for sensitivity of the property: the skip stops one record early
SearchSkips_OffByOne(sc, offset) == sc < offset

\* "if scanned <= offset: continue"
SearchSkips(sc, offset) == sc <= offset

\* "if len(items) >= limit"
PageFilled(n, limit) == n >= limit

\* faulty variant, for sensitivity of the property: the next offset is the number of records scanned
NextOffsetOnFill_Scanned(offset, sc) == sc

\* "next_offset = offset + scanned"
NextOffsetOnFill(offset, sc) == offset + sc

\* lines 828-846: the locals before the loop
SearchEnter(q, field, offset, limit, use_regex) ==
    /\ pc' = "search"
    /\ args' = [op |-> "search", q |-> q, field |-> field, offset |-> offset,
                limit |-> limit, use_regex |-> use_regex]
    /\ items' = <<>>
    /\ scanned' = 0
    /\ next_offset' = Some(offset)
    /\ pattern' = CompilePattern(q, use_regex)
    /\ line_num' = 0
    /\ broke' = FALSE
    /\ io_failed' = FALSE
    /\ result' = NoResult
    /\ UNCHANGED <<fixed, count, reservoir, delivered, buckets,
                   avars>>

search_spills(q, field, offset, limit, use_regex) ==
    /\ pc = "idle"
    /\ SearchEnter(q, field, offset, limit, use_regex)
    /\ UNCHANGED <<pages, client, previous>>

\* one iteration of "for idx, parts in self._iter_spill_lines(...)"
SearchLoop ==
    /\ pc = "search"
    /\ ~broke
    /\ ScanNext # 0
    /\ LET idx == ScanNext
           parts == file[idx]
           sc == scanned + 1
       IN  /\ line_num' = idx
           /\ scanned' = sc
           /\ IF SearchSkips(sc, args.offset)
                 \/ ~SearchMatches(args.q, args.field, pattern, parts)
              THEN UNCHANGED <<items, next_offset, broke, pc, result>>
              ELSE IF ItemRaises(parts)
              THEN /\ pc' = "done"
                   /\ result' = Raised
                   /\ UNCHANGED <<items, next_offset, broke>>
              ELSE /\ items' = Append(items, ItemOf(idx, parts))
                   /\ IF PageFilled(Len(items) + 1, args.limit)
                      THEN /\ next_offset' = Some(NextOffsetOnFill(args.offset, sc))
                           /\ broke' = TRUE
                      ELSE UNCHANGED <<next_offset, broke>>
                   /\ UNCHANGED <<pc, result>>
    /\ UNCHANGED <<fixed, io_failed, args, pattern, count, reservoir, delivered, pages,
                   client, previous, buckets,
                   avars>>

\* lines 886-893
SearchReturn ==
    /\ pc = "search"
    /\ broke \/ ScanNext = 0
    /\ result' = [kind |-> "search",
                  items |-> items,
                  next_offset |-> IF PageFilled(Len(items), args.limit)
                                  THEN next_offset ELSE None,
                  scanned_lines |-> scanned]
    /\ pc' = "done"
    /\ UNCHANGED <<fixed, io_failed, args, line_num, scanned, items, next_offset, broke,
                   pattern, count, reservoir, delivered, pages, client, previous, buckets,
                   avars>>

-----------------------------------------------------------------------------
(* count_spills *)

\* faulty variant, for sensitivity of the property: the cap is passed by one record before the scan stops
CountCapReached_Strict(max_scan_lines, sc) == max_scan_lines # 0 /\ sc > max_scan_lines

\* "max_scan_lines and scanned >= max_scan_lines"
CountCapReached(max_scan_lines, sc) == max_scan_lines # 0 /\ sc >= max_scan_lines

\* faulty variant, for sensitivity of the property: the counter is kept from one call to the
\* next
CountStart_Kept(before) == before

\* "count = 0": a local, new in every call, whatever an earlier call left
CountStart(before) == 0

CountEnter(q, field, max_scan_lines, use_regex) ==
    /\ pc' = "count"
    /\ args' = [op |-> "count", q |-> q, field |-> field,
                max_scan_lines |-> max_scan_lines, use_regex |-> use_regex]
    /\ count' = CountStart(count)
    /\ scanned' = 0
    /\ pattern' = CompilePattern(q, use_regex)
    /\ line_num' = 0
    /\ broke' = FALSE
    /\ io_failed' = FALSE
    /\ result' = NoResult
    /\ UNCHANGED <<fixed, items, next_offset, reservoir, delivered, buckets,
                   avars>>

count_spills(q, field, max_scan_lines, use_regex) ==
    /\ pc = "idle"
    /\ CountEnter(q, field, max_scan_lines, use_regex)
    /\ UNCHANGED <<pages, client, previous>>

\* one iteration of "for _, parts in self._iter_spill_lines(...)"
CountLoop ==
    /\ pc = "count"
    /\ ~broke
    /\ ScanNext # 0
    /\ LET idx == ScanNext
           parts == file[idx]
           sc == scanned + 1
       IN  /\ line_num' = idx
           /\ scanned' = sc
           /\ count' = IF CountMatches(args.q, args.field, pattern, parts)
                       THEN count + 1 ELSE count
           /\ broke' = CountCapReached(args.max_scan_lines, sc)
    /\ UNCHANGED <<fixed, io_failed, pc, args, items, next_offset, pattern, reservoir,
                   delivered, result, pages, client, previous, buckets,
                   avars>>

\* lines 941-948
CountReturn ==
    /\ pc = "count"
    /\ broke \/ ScanNext = 0
    /\ result' = [kind |-> "count",
                  count |-> count,
                  scanned_lines |-> scanned,
                  partial |-> CountCapReached(args.max_scan_lines, scanned)]
    /\ pc' = "done"
    /\ UNCHANGED <<fixed, io_failed, args, line_num, scanned, items, next_offset, broke,
                   pattern, count, reservoir, delivered, pages, client, previous, buckets,
                   avars>>

-----------------------------------------------------------------------------
(* sample_spills *)

\* random.randint(a, b): any integer of a..b
RandInt(a, b) == a..b

\* faulty variant, for sensitivity of the property: the draw ranges over one value too many
SampleDrawRange_Wide(sc) == RandInt(0, sc)

\* "j = random.randint(0, scanned - 1)"
SampleDrawRange(sc) == RandInt(0, sc - 1)

\* faulty variant, for sensitivity of the property: the reservoir is filled up to n + 1 items
ReservoirStep_OneMore(res, n, item, j) ==
    IF Len(res) <= n THEN Append(res, item)
    ELSE IF j < n THEN [res EXCEPT ![j + 1] = item]
    ELSE res

\* faulty variant, for sensitivity of the property: a draw below n adds the item instead of
\* replacing one
ReservoirStep_Grows(res, n, item, j) ==
    IF Len(res) < n THEN Append(res, item)
    ELSE IF j < n THEN Append(res, item)
    ELSE res

\* lines 969-974: the reservoir after one more item, j being the draw
ReservoirStep(res, n, item, j) ==
    IF Len(res) < n THEN Append(res, item)
    ELSE IF j < n THEN [res EXCEPT ![j + 1] = item]
    ELSE res

sample_spills(n) ==
    /\ pc = "idle"
    /\ pc' = "sample"
    /\ args' = [op |-> "sample", n |-> n]
    /\ reservoir' = <<>>
    /\ scanned' = 0
    /\ line_num' = 0
    /\ io_failed' = FALSE
    /\ result' = NoResult
    /\ UNCHANGED <<fixed, items, next_offset, broke, pattern, count, delivered,
                   pages, client, previous, buckets,
                   avars>>

\* one iteration of "for idx, parts in self._iter_spill_lines(...)"
SampleLoop ==
    /\ pc = "sample"
    /\ ScanNext # 0
    /\ LET idx == ScanNext
           parts == file[idx]
           sc == scanned + 1
       IN  /\ line_num' = idx
           /\ scanned' = sc
           /\ IF ItemRaises(parts)
              THEN /\ pc' = "done"
                   /\ result' = Raised
                   /\ UNCHANGED reservoir
              ELSE \* j is only looked at once the reservoir is full
                   /\ \E j \in SampleDrawRange(sc) :
                        reservoir' = ReservoirStep(reservoir, args.n, ItemOf(idx, parts), j)
                   /\ UNCHANGED <<pc, result>>
    /\ UNCHANGED <<fixed, io_failed, args, items, next_offset, broke, pattern, count,
                   delivered, pages, client, previous, buckets,
                   avars>>

\* lines 975-981
SampleReturn ==
    /\ pc = "sample"
    /\ ScanNext = 0
    /\ result' = [kind |-> "sample", items |-> reservoir, scanned_lines |-> scanned]
    /\ pc' = "done"
    /\ UNCHANGED <<fixed, io_failed, args, line_num, scanned, items, next_offset, broke,
                   pattern, count, reservoir, delivered, pages, client, previous, buckets,
                   avars>>

-----------------------------------------------------------------------------
(* range_spills *)

\* faulty variant, for sensitivity of the property: a bound is tested for truth, so a bound of 0 counts as omitted
InRange_Truthy(store_ic, min_store_inst, max_store_inst) ==
    /\ ~(min_store_inst # None /\ min_store_inst[1] # 0 /\ store_ic < min_store_inst[1])
    /\ ~(max_store_inst # None /\ max_store_inst[1] # 0 /\ store_ic > max_store_inst[1])

\* lines 1001-1004: neither "continue" is taken
InRange(store_ic, min_store_inst, max_store_inst) ==
    /\ ~(min_store_inst # None /\ store_ic < min_store_inst[1])
    /\ ~(max_store_inst # None /\ store_ic > max_store_inst[1])

\* lines 1011-1015: an int() of the item raises ValueError
RangeItemRaises(parts) ==
    \/ ItemRaises(parts)
    \/ (Len(parts) > 8 /\ ~ParseInt(Part(parts, 8)).ok)

RangeItemOf(idx, parts, store_ic) ==
    [id |-> Str(idx),
     pc |-> Part(parts, 1),
     load_pc |-> Part(parts, 2),
     store_pc |-> Part(parts, 1),
     memory_address |-> Part(parts, 3),
     store_tick |-> ParseInt(Part(parts, 4)).val,
     load_tick |-> ParseInt(Part(parts, 5)).val,
     duration |-> ParseInt(Part(parts, 6)).val,
     store_inst_count |-> store_ic,
     load_inst_count |-> IF Len(parts) > 8 THEN Some(ParseInt(Part(parts, 8)).val)
                         ELSE None]

\* faulty variant, for sensitivity of the property: the skip stops one record early
RangeSkips_OffByOne(sc, offset) == sc < offset

\* "if scanned <= offset: continue"
RangeSkips(sc, offset) == sc <= offset

\* lines 988-992: the locals before the loop
RangeEnter(min_store_inst, max_store_inst, offset, limit) ==
    /\ pc' = "range"
    /\ args' = [op |-> "range", min_store_inst |-> min_store_inst,
                max_store_inst |-> max_store_inst, offset |-> offset,
                limit |-> limit]
    /\ items' = <<>>
    /\ scanned' = 0
    /\ delivered' = 0
    /\ next_offset' = Some(offset)
    /\ line_num' = 0
    /\ broke' = FALSE
    /\ io_failed' = FALSE
    /\ result' = NoResult
    /\ UNCHANGED <<fixed, pattern, count, reservoir, buckets,
                   avars>>

range_spills(min_store_inst, max_store_inst, offset, limit) ==
    /\ pc = "idle"
    /\ RangeEnter(min_store_inst, max_store_inst, offset, limit)
    /\ UNCHANGED <<pages, client, previous>>

\* one iteration of "for idx, parts in self._iter_spill_lines(...)"
RangeLoop ==
    /\ pc = "range"
    /\ ~broke
    /\ ScanNext # 0
    /\ LET idx == ScanNext
           parts == file[idx]
           sc == scanned + 1
           store_ic == ParseInt(Part(parts, 7))
       IN  /\ line_num' = idx
           /\ scanned' = sc
           /\ IF \/ RangeSkips(sc, args.offset)
                 \/ ~store_ic.ok
                 \/ ~InRange(store_ic.val, args.min_store_inst, args.max_store_inst)
              THEN UNCHANGED <<items, delivered, next_offset, broke, pc, result>>
              ELSE IF RangeItemRaises(parts)
              THEN /\ pc' = "done"
                   /\ result' = Raised
                   /\ UNCHANGED <<items, delivered, next_offset, broke>>
              ELSE /\ items' = Append(items, RangeItemOf(idx, parts, store_ic.val))
                   /\ delivered' = delivered + 1
                   /\ IF delivered + 1 >= args.limit
                      THEN /\ next_offset' = Some(args.offset + sc)
                           /\ broke' = TRUE
                      ELSE UNCHANGED <<next_offset, broke>>
                   /\ UNCHANGED <<pc, result>>
    /\ UNCHANGED <<fixed, io_failed, args, pattern, count, reservoir, pages, client, previous,
                   buckets,
                   avars>>

\* lines 1022-1029
RangeReturn ==
    /\ pc = "range"
    /\ broke \/ ScanNext = 0
    /\ result' = [kind |-> "range",
                  items |-> items,
                  next_offset |-> IF delivered >= args.limit THEN next_offset ELSE None,
                  scanned_lines |-> scanned]
    /\ pc' = "done"
    /\ UNCHANGED <<fixed, io_failed, args, line_num, scanned, items, next_offset, broke,
                   pattern, count, reservoir, delivered, pages, client, previous, buckets,
                   avars>>

-----------------------------------------------------------------------------
(* _create_histogram_buckets                                               *)
(*                                                                         *)
(* bucket_size is a float.  The model keeps every bucket boundary as the   *)
(* exact fraction num / den with den = num_buckets, and is run on data for *)
(* which the float arithmetic is exact too (HistValues, HistBucketCounts). *)

RECURSIVE SeqMin(_)
SeqMin(data) ==
    IF Len(data) = 1 THEN data[1] ELSE Min(data[1], SeqMin(Tail(data)))
RECURSIVE SeqMax(_)
SeqMax(data) ==
    IF Len(data) = 1 THEN data[1] ELSE Max(data[1], SeqMax(Tail(data)))

\* num_buckets * bucket_size, with
\* bucket_size = (max_val - min_val) / num_buckets if max_val > min_val else 1
BucketSizeNum(data, num_buckets) ==
    IF SeqMax(data) > SeqMin(data) THEN SeqMax(data) - SeqMin(data) ELSE num_buckets

\* num_buckets * (min_val + i * bucket_size)
BoundaryNum(data, num_buckets, i) ==
    num_buckets * SeqMin(data) + i * BucketSizeNum(data, num_buckets)

\* "bucket_start <= val < bucket_end" for bucket i
InBucket(data, num_buckets, i, val) ==
    /\ BoundaryNum(data, num_buckets, i) <= num_buckets * val
    /\ num_buckets * val < BoundaryNum(data, num_buckets, i + 1)

\* lines 1510-1520: bucket i
BucketOf(data, num_buckets, i) ==
    LET cnt == Cardinality({k \in 1..Len(data) : InBucket(data, num_buckets, i, data[k])})
    IN  [count |-> cnt,
         percentage |-> [num |-> cnt * 100, den |-> Len(data)],
         start |-> [num |-> BoundaryNum(data, num_buckets, i), den |-> num_buckets],
         end |-> [num |-> BoundaryNum(data, num_buckets, i + 1), den |-> num_buckets]]

create_histogram_buckets(data, num_buckets) ==
    /\ pc = "idle"
    /\ args' = [op |-> "hist", data |-> data, num_buckets |-> num_buckets]
    /\ buckets' = <<>>
    /\ IF data = <<>>
       THEN /\ pc' = "done"
            /\ result' = [kind |-> "hist", buckets |-> <<>>]
       ELSE /\ pc' = "hist"
            /\ result' = NoResult
    /\ UNCHANGED <<fixed, io_failed, line_num, scanned, items, next_offset, broke, pattern,
                   count, reservoir, delivered, pages, client, previous,
                   avars>>

\* one iteration of "for i in range(num_buckets)"
HistLoop ==
    /\ pc = "hist"
    /\ Len(buckets) < args.num_buckets
    /\ buckets' = Append(buckets, BucketOf(args.data, args.num_buckets, Len(buckets)))
    /\ UNCHANGED <<fixed, io_failed, pc, args, line_num, scanned, items, next_offset, broke,
                   pattern, count, reservoir, delivered, result, pages, client, previous,
                   avars>>

HistReturn ==
    /\ pc = "hist"
    /\ Len(buckets) >= args.num_buckets
    /\ result' = [kind |-> "hist", buckets |-> buckets]
    /\ pc' = "done"
    /\ UNCHANGED <<fixed, io_failed, args, line_num, scanned, items, next_offset, broke,
                   pattern, count, reservoir, delivered, buckets, pages, client, previous,
                   avars>>

-----------------------------------------------------------------------------
(* get_spill_analysis_data and its two strategies.  The report is kept     *)
(* with its statistics; avg_spill_duration is held as the exact fraction   *)
(* the code passes to round(., 2).                                         *)

\* total_spills above which the sampling strategy is used: 100000 in the
\* source (line 1106), scaled to the size of the modelled files
LARGE_DATASET == 2

\* capacity of the analysis reservoir: 10000 in the source (line 1158),
\* scaled likewise
SAMPLE_SIZE == 2

\* the default of parse_spill_log's max_events: 50000 in the source (line
\* 1031), scaled likewise
DEFAULT_MAX_EVENTS == 1

\* _count_total_spills_streaming: the lines that start with "SPILL,"
CountTotalSpills(f) ==
    Cardinality({k \in 1..Len(f) : StartsWithSpill(f[k])})

\* the dict parse_spill_log and the sampled pass build from a line
EventOf(parts) ==
    [store_pc |-> Part(parts, 1),
     load_pc |-> Part(parts, 2),
     memory_address |-> Part(parts, 3),
     store_tick |-> ParseInt(Part(parts, 4)).val,
     load_tick |-> ParseInt(Part(parts, 5)).val,
     tick_diff |-> ParseInt(Part(parts, 6)).val,
     store_inst_count |-> ParseInt(Part(parts, 7)).val,
     load_inst_count |-> ParseInt(Part(parts, 8)).val]

RECURSIVE ParseFrom(_, _, _, _)
\* parse_spill_log from raw line k on, with the events gathered so far
ParseFrom(f, max_events, k, events) ==
    IF k > Len(f) \/ Len(events) >= max_events THEN events
    ELSE LET line == StripParts(f[k])
         IN  IF /\ StartsWithSpill(line)
                /\ Len(line) >= 9
                /\ \A p \in 4..8 : ParseInt(Part(line, p)).ok
             THEN ParseFrom(f, max_events, k + 1,
                            Append(events, EventOf(line) @@ ("line_number" :> k)))
             ELSE ParseFrom(f, max_events, k + 1, events)

\* parse_spill_log(spill_log_path, max_events)
ParseSpillLog(f, max_events) == ParseFrom(f, max_events, 1, <<>>)

RECURSIVE SumTickDiff(_)
SumTickDiff(events) ==
    IF events = <<>> THEN 0 ELSE events[1].tick_diff + SumTickDiff(Tail(events))

TickDiffs(events) == [i \in 1..Len(events) |-> events[i].tick_diff]

\* parse_spill_log called on its own: lines 1041-1043 give no events when
\* there is no file
parse_spill_log(max_events) ==
    /\ pc = "idle"
    /\ args' = [op |-> "parse", max_events |-> max_events]
    /\ result' = [kind |-> "events",
                  events |-> IF exists THEN ParseSpillLog(file, max_events) ELSE <<>>]
    /\ pc' = "done"
    /\ io_failed' = FALSE
    /\ UNCHANGED <<fixed, line_num, scanned, items, next_offset, broke, pattern,
                   count, reservoir, delivered, buckets, pages, client, previous,
                   avars>>

\* _empty_spill_analysis
EmptySpillAnalysis ==
    [kind |-> "analysis",
     spill_count |-> 0,
     sampled |-> None,
     sample_size |-> None,
     statistics |-> [total_spills |-> 0,
                     avg_duration |-> [num |-> 0, den |-> 1],
                     unique_memory_addresses |-> 0,
                     unique_store_pcs |-> 0,
                     unique_load_pcs |-> 0,
                     max_spill_duration |-> 0,
                     min_spill_duration |-> 0]]

\* _get_spill_analysis_full
SpillAnalysisFull(spill_events, total) ==
    IF spill_events = <<>> THEN EmptySpillAnalysis
    ELSE [kind |-> "analysis",
          spill_count |-> total,
          sampled |-> Some(FALSE),
          sample_size |-> None,
          statistics |->
            [total_spills |-> total,
             avg_duration |-> [num |-> SumTickDiff(spill_events),
                               den |-> Len(spill_events)],
             unique_memory_addresses |->
                Cardinality({spill_events[i].memory_address : i \in 1..Len(spill_events)}),
             unique_store_pcs |->
                Cardinality({spill_events[i].store_pc : i \in 1..Len(spill_events)}),
             unique_load_pcs |->
                Cardinality({spill_events[i].load_pc : i \in 1..Len(spill_events)}),
             max_spill_duration |-> SeqMax(TickDiffs(spill_events)),
             min_spill_duration |-> SeqMin(TickDiffs(spill_events))]]

\* faulty variant, for sensitivity of the property: the threshold itself already samples
UsesSampling_AtThreshold(total) == total >= LARGE_DATASET

\* "if total_spills > 100000"
UsesSampling(total) == total > LARGE_DATASET

\* lines 1102-1109 and 1163-1175, total being what the sizing pass counted:
\* the choice of the strategy, and the locals of the pass that follows
SizingPass(total) ==
    /\ args' = [op |-> "analysis"]
    /\ total_spills' = total
    /\ pc' = IF UsesSampling(total) THEN "sampled" ELSE "small"
    /\ reservoir' = <<>>
    /\ duration_sum' = 0
    /\ duration_min' = Inf
    /\ duration_max' = 0
    /\ unique_memory_addrs' = {}
    /\ unique_store_pcs' = {}
    /\ unique_load_pcs' = {}
    /\ event_idx' = 0
    /\ line_num' = 0
    /\ result' = NoResult
    /\ UNCHANGED <<fixed, scanned, items, next_offset, broke, pattern, count,
                   delivered, buckets, pages, client, previous>>

\* lines 1094-1114: no file gives the empty report at once; otherwise the
\* sizing pass and the choice of the strategy
get_spill_analysis_data ==
    /\ pc = "idle"
    /\ io_failed' = FALSE
    /\ IF ~exists
       THEN /\ args' = [op |-> "analysis"]
            /\ result' = EmptySpillAnalysis
            /\ pc' = "done"
            /\ UNCHANGED <<fixed, line_num, scanned, items, next_offset, broke,
                           pattern, count, reservoir, delivered, buckets, pages,
                           client, previous, avars>>
       ELSE SizingPass(CountTotalSpills(file))

\* faulty variant, for sensitivity of the property: parse_spill_log is left with its default cap
SmallMaxEvents_Default(total) == DEFAULT_MAX_EVENTS

\* "max_events=total_spills"
SmallMaxEvents(total) == total

\* lines 1113-1114: the small-dataset strategy
AnalyzeSmall ==
    /\ pc = "small"
    /\ result' = SpillAnalysisFull(ParseSpillLog(file, SmallMaxEvents(total_spills)),
                                   total_spills)
    /\ pc' = "done"
    /\ UNCHANGED <<fixed, io_failed, args, line_num, scanned, items, next_offset, broke,
                   pattern, count, reservoir, delivered, buckets, pages, client, previous,
                   avars>>

\* lines 1177-1182: the sampled pass looks at this line
SampledTakes(parts) == StartsWithSpill(parts) /\ Len(StripParts(parts)) >= 9

NextSampled(f, pos) ==
    LET later == {k \in (pos + 1)..Len(f) : SampledTakes(f[k])}
    IN  IF later = {} THEN 0 ELSE CHOOSE k \in later : \A m \in later : k <= m

\* "duration_min = min(duration_min, tick_diff)"
MinWithInf(dmin, v) == IF dmin = Inf THEN Some(v) ELSE Some(Min(dmin[1], v))

\* lines 1208-1214
SampledReservoirStep(res, event, j) ==
    IF Len(res) < SAMPLE_SIZE THEN Append(res, event)
    ELSE IF j < SAMPLE_SIZE THEN [res EXCEPT ![j + 1] = event]
    ELSE res

\* one iteration of "for line in f" that reaches the try block (lines
\* 1184-1223): the accumulators are updated before the other fields are
\* parsed, and ValueError only ends the iteration
SampledLoop ==
    /\ pc = "sampled"
    /\ NextSampled(file, line_num) # 0
    /\ LET k == NextSampled(file, line_num)
           parts == StripParts(file[k])
           tick_diff == ParseInt(Part(parts, 6))
       IN  /\ line_num' = k
           /\ IF ~tick_diff.ok
              THEN UNCHANGED <<duration_sum, duration_min, duration_max,
                               unique_memory_addrs, unique_store_pcs,
                               unique_load_pcs, reservoir, event_idx>>
              ELSE /\ duration_sum' = duration_sum + tick_diff.val
                   /\ duration_min' = MinWithInf(duration_min, tick_diff.val)
                   /\ duration_max' = Max(duration_max, tick_diff.val)
                   /\ unique_memory_addrs' = unique_memory_addrs \cup {Part(parts, 3)}
                   /\ unique_store_pcs' = unique_store_pcs \cup {Part(parts, 1)}
                   /\ unique_load_pcs' = unique_load_pcs \cup {Part(parts, 2)}
                   /\ IF \E p \in {4, 5, 7, 8} : ~ParseInt(Part(parts, p)).ok
                      THEN UNCHANGED <<reservoir, event_idx>>
                      ELSE \* j is only looked at once the reservoir is full
                           /\ \E j \in RandInt(0, event_idx) :
                                reservoir' = SampledReservoirStep(reservoir, EventOf(parts), j)
                           /\ event_idx' = event_idx + 1
    /\ UNCHANGED <<fixed, io_failed, pc, args, scanned, items, next_offset, broke, pattern,
                   count, delivered, buckets, result, pages, client, previous, total_spills>>

\* lines 1229-1266
SampledReturn ==
    /\ pc = "sampled"
    /\ NextSampled(file, line_num) = 0
    /\ result' =
        [kind |-> "analysis",
         spill_count |-> total_spills,
         sampled |-> Some(TRUE),
         sample_size |-> Some(Len(reservoir)),
         statistics |->
            [total_spills |-> total_spills,
             avg_duration |-> IF total_spills > 0
                              THEN [num |-> duration_sum, den |-> total_spills]
                              ELSE [num |-> 0, den |-> 1],
             unique_memory_addresses |-> Cardinality(unique_memory_addrs),
             unique_store_pcs |-> Cardinality(unique_store_pcs),
             unique_load_pcs |-> Cardinality(unique_load_pcs),
             max_spill_duration |-> duration_max,
             min_spill_duration |-> IF duration_min # Inf THEN duration_min[1] ELSE 0]]
    /\ pc' = "done"
    /\ UNCHANGED <<fixed, io_failed, args, line_num, scanned, items, next_offset, broke,
                   pattern, count, reservoir, delivered, buckets, pages, client, previous,
                   avars>>

-----------------------------------------------------------------------------
(* Reads that fail.  "for line in f" can raise in the middle of a file (an *)
(* OSError of the device, a UnicodeDecodeError of the text layer); each    *)
(* scan has its own except clause, which decides what the call returns.    *)

\* _iter_spill_lines, lines 818-819: the generator logs the error and ends,
\* and the for loop of the caller ends with it as at the end of the file
IterReadFails ==
    /\ pc \in {"search", "count", "sample", "range"}
    /\ exists
    /\ ~io_failed
    /\ ~broke
    /\ line_num < Len(file)
    /\ io_failed' = TRUE
    /\ UNCHANGED <<fixed, pc, args, line_num, scanned, items, next_offset, broke,
                   pattern, count, reservoir, delivered, buckets, result, pages,
                   client, previous, avars>>

\* _count_total_spills_streaming, lines 1128-1130: the error is logged and
\* the lines counted before it are the total; n lines were read
SizingReadFails ==
    /\ pc = "idle"
    /\ exists
    /\ io_failed' = TRUE
    /\ \E n \in 0..(Len(file) - 1) : SizingPass(CountTotalSpills(SubSeq(file, 1, n)))

\* parse_spill_log, lines 1084-1086: the events parsed before the error are
\* returned; n lines were read, and the loop had not left at the cap before
SmallReadFails ==
    /\ pc = "small"
    /\ \E n \in 0..(Len(file) - 1) :
        /\ n = 0 \/ Len(ParseSpillLog(SubSeq(file, 1, n - 1), SmallMaxEvents(total_spills)))
                        < SmallMaxEvents(total_spills)
        /\ result' = SpillAnalysisFull(
                        ParseSpillLog(SubSeq(file, 1, n), SmallMaxEvents(total_spills)),
                        total_spills)
    /\ pc' = "done"
    /\ io_failed' = TRUE
    /\ UNCHANGED <<fixed, args, line_num, scanned, items, next_offset, broke,
                   pattern, count, reservoir, delivered, buckets, pages, client, previous,
                   avars>>

\* _get_spill_analysis_sampled, lines 1268-1270
SampledReadFails ==
    /\ pc = "sampled"
    /\ line_num < Len(file)
    /\ result' = EmptySpillAnalysis
    /\ pc' = "done"
    /\ io_failed' = TRUE
    /\ UNCHANGED <<fixed, args, line_num, scanned, items, next_offset, broke,
                   pattern, count, reservoir, delivered, buckets, pages, client, previous,
                   avars>>

-----------------------------------------------------------------------------
(* Two calls in two threads.  Every local above belongs to one call, and   *)
(* every scan opens the file for itself (lines 810, 1047, 1124, 1176), so  *)
(* a thread switch puts the whole of the running call aside and brings the *)
(* whole of the other call back.                                           *)

\* faulty variant, for sensitivity of the property: one file handle for both calls, so the
\* position of the call that ran last carries over
HandlePos_Shared(mine, theirs) == theirs

\* the file position a call finds when its thread runs again: its own
HandlePos(mine, theirs) == mine

\* the interpreter switches threads between two steps
Switch ==
    /\ suspended' = Locals
    /\ pc' = suspended.pc
    /\ args' = suspended.args
    /\ line_num' = HandlePos(suspended.line_num, line_num)
    /\ scanned' = suspended.scanned
    /\ items' = suspended.items
    /\ next_offset' = suspended.next_offset
    /\ broke' = suspended.broke
    /\ pattern' = suspended.pattern
    /\ count' = suspended.count
    /\ reservoir' = suspended.reservoir
    /\ delivered' = suspended.delivered
    /\ buckets' = suspended.buckets
    /\ result' = suspended.result
    /\ io_failed' = suspended.io_failed
    /\ total_spills' = suspended.total_spills
    /\ event_idx' = suspended.event_idx
    /\ duration_sum' = suspended.duration_sum
    /\ duration_min' = suspended.duration_min
    /\ duration_max' = suspended.duration_max
    /\ unique_memory_addrs' = suspended.unique_memory_addrs
    /\ unique_store_pcs' = suspended.unique_store_pcs
    /\ unique_load_pcs' = suspended.unique_load_pcs
    /\ UNCHANGED <<file, exists, pages, client, previous>>

-----------------------------------------------------------------------------
(* A client that pages through search with an empty term, feeding each     *)
(* next_offset back as the next offset, and then calls count.              *)

PageFirst(limit) ==
    /\ pc = "idle"
    /\ client = "none"
    /\ SearchEnter(<<>>, "all", 0, limit, FALSE)
    /\ pages' = <<>>
    /\ client' = "paging"
    /\ UNCHANGED previous

PageNext ==
    /\ client = "paging"
    /\ pc = "done"
    /\ result.kind = "search"
    /\ result.next_offset # None
    /\ pages' = pages \o result.items
    /\ SearchEnter(<<>>, "all", result.next_offset[1], args.limit, FALSE)
    /\ UNCHANGED <<client, previous>>

PageEnd ==
    /\ client = "paging"
    /\ pc = "done"
    /\ result.kind = "search"
    /\ result.next_offset = None
    /\ pages' = pages \o result.items
    /\ client' = "counting"
    /\ CountEnter(<<>>, "all", 0, FALSE)
    /\ UNCHANGED previous

-----------------------------------------------------------------------------
(* A client that calls count twice with the same arguments.                *)

CountFirst(q, field, max_scan_lines, use_regex) ==
    /\ pc = "idle"
    /\ client = "none"
    /\ CountEnter(q, field, max_scan_lines, use_regex)
    /\ client' = "counting once"
    /\ UNCHANGED <<pages, previous>>

CountSecond ==
    /\ client = "counting once"
    /\ pc = "done"
    /\ previous' = result
    /\ CountEnter(args.q, args.field, args.max_scan_lines, args.use_regex)
    /\ client' = "counting again"
    /\ UNCHANGED pages

-----------------------------------------------------------------------------
(* A client that calls search with an empty term and then range with no    *)
(* bound, at the same offset and limit.                                    *)

SearchFirst(offset, limit) ==
    /\ pc = "idle"
    /\ client = "none"
    /\ SearchEnter(<<>>, "all", offset, limit, FALSE)
    /\ client' = "searching"
    /\ UNCHANGED <<pages, previous>>

RangeSecond ==
    /\ client = "searching"
    /\ pc = "done"
    /\ previous' = result
    /\ RangeEnter(None, None, args.offset, args.limit)
    /\ client' = "ranging"
    /\ UNCHANGED pages

-----------------------------------------------------------------------------
(* Specifications *)

QueryLines == {CommentLine, ShortLine, GoodA, GoodB, BadTick}
QueryFiles == SeqsUpTo(QueryLines, MaxLines)
QueryTerms == {<<>>, T1("a")}
QueryFields == {"all", "store_pc"}

InitQuery ==
    /\ exists = TRUE
    /\ file \in QueryFiles
    /\ InitLocals

NextSearch ==
    \/ \E q \in QueryTerms, field \in QueryFields,
          offset \in 0..MaxArg, limit \in 0..MaxArg :
            search_spills(q, field, offset, limit, FALSE)
    \/ SearchLoop
    \/ SearchReturn

SpecSearch == InitQuery /\ [][NextSearch]_vars

NextCount ==
    \/ \E q \in QueryTerms, field \in QueryFields, max_scan_lines \in (-1)..MaxArg :
            count_spills(q, field, max_scan_lines, FALSE)
    \/ CountLoop
    \/ CountReturn

SpecCount == InitQuery /\ [][NextCount]_vars

NextPaging ==
    \/ \E limit \in 1..MaxArg : PageFirst(limit)
    \/ PageNext
    \/ PageEnd
    \/ SearchLoop
    \/ SearchReturn
    \/ CountLoop
    \/ CountReturn

SpecPaging == InitQuery /\ [][NextPaging]_vars

NextSample ==
    \/ \E n \in 0..MaxArg : sample_spills(n)
    \/ SampleLoop
    \/ SampleReturn

SpecSample == InitQuery /\ [][NextSample]_vars

\* store_inst_count 0, 2 and one that is not a number
RangeLines == {CommentLine, GoodA, GoodB, BadCount}
OptionalBounds == {None} \cup {Some(v) : v \in 0..MaxArg}

InitRange ==
    /\ exists = TRUE
    /\ file \in SeqsUpTo(RangeLines, MaxLines)
    /\ InitLocals

NextRange ==
    \/ \E min_store_inst \in OptionalBounds, max_store_inst \in OptionalBounds,
          offset \in 0..1, limit \in {1, MaxArg} :
            range_spills(min_store_inst, max_store_inst, offset, limit)
    \/ RangeLoop
    \/ RangeReturn

SpecRange == InitRange /\ [][NextRange]_vars

\* the bucket count both callers pass (lines 1330 and 1378)
HIST_BUCKETS == 20
\* values and bucket counts whose quotients are exact in binary floating point
HistValues == {0, 10, 20}
HistBucketCounts == {1, 2, 4, HIST_BUCKETS}

InitHist ==
    /\ exists = TRUE
    /\ file = <<>>
    /\ InitLocals

NextHist ==
    \/ \E data \in SeqsUpTo(HistValues, MaxLines), num_buckets \in HistBucketCounts :
            create_histogram_buckets(data, num_buckets)
    \/ HistLoop
    \/ HistReturn

SpecHist == InitHist /\ [][NextHist]_vars

-----------------------------------------------------------------------------
(* _generate_lightweight_charts and _analyze_pc_patterns.  The titles and  *)
(* the descriptions of the charts, which are texts for display, are left   *)
(* out of the payload.                                                     *)

\* the number of events above which the charts are drawn from a random
\* subset: 1000 in the source (line 1322), scaled to the size of the
\* modelled collections
MAX_CHART_POINTS == 2

\* "[:10]": the number of PCs _analyze_pc_patterns keeps
TOP_PCS == 10

\* faulty variant, for sensitivity of the property: the collection is never cut down
ChartNeedsCut_Never(n) == FALSE

\* "if len(spill_sample) > MAX_CHART_POINTS"
ChartNeedsCut(n) == n > MAX_CHART_POINTS

\* random.sample(population, k) as the positions it picks: k different
\* positions of the population, in any order
RandomSample(n, k) ==
    {picks \in [1..k -> 1..n] :
        \A i \in 1..k, j \in 1..k : i # j => picks[i] # picks[j]}

\* lines 1321-1326: the positions of spill_sample the charts are built from
ChartPicks(n) ==
    IF ChartNeedsCut(n) THEN RandomSample(n, MAX_CHART_POINTS)
    ELSE {[i \in 1..n |-> i]}

\* f"spill_{i}"
ScatterId(i) == <<"s", "p", "i", "l", "l", "_">> \o Str(i)

\* lines 1334-1342: the scatter point of the event at 0-based position i
ScatterPoint(i, event) ==
    [id |-> ScatterId(i),
     duration |-> event.tick_diff,
     store_inst |-> event.store_inst_count,
     load_inst |-> event.load_inst_count,
     pc |-> event.store_pc,
     memory_address |-> event.memory_address]

\* lines 1552-1564 for one of the two PCs, pcs being that PC of every
\* event: the values in the order they first occur, each with the number of
\* events that have it, stably sorted by that number, largest first, and
\* cut to TOP_PCS
TopPcs(pcs) ==
    LET n == Len(pcs)
        IsFirst(i) == \A j \in 1..(i - 1) : pcs[j] # pcs[i]
        firsts == SelectSeq([i \in 1..n |-> i], IsFirst)
        CountOf(i) == Cardinality({j \in 1..n : pcs[j] = pcs[i]})
        Before(q, p) ==
            CountOf(q) > CountOf(p) \/ (CountOf(q) = CountOf(p) /\ q < p)
        RankOf(p) ==
            Cardinality({m \in 1..Len(firsts) : Before(firsts[m], p)}) + 1
        sorted == [r \in 1..Len(firsts) |->
                      CHOOSE p \in {firsts[m] : m \in 1..Len(firsts)} : RankOf(p) = r]
    IN  [r \in 1..Min(TOP_PCS, Len(firsts)) |->
            [pc |-> pcs[sorted[r]], count |-> CountOf(sorted[r])]]

\* _analyze_pc_patterns
AnalyzePcPatterns(spill_events) ==
    [top_store_pcs |-> TopPcs([i \in 1..Len(spill_events) |-> spill_events[i].store_pc]),
     top_load_pcs |-> TopPcs([i \in 1..Len(spill_events) |-> spill_events[i].load_pc])]

\* "return {}"
NoCharts == [kind |-> "no charts"]

\* lines 1328-1370: the payload built from the events the charts use
ChartsOf(spill_sample, total) ==
    LET durations == TickDiffs(spill_sample)
        scatter_data == [i \in 1..Len(spill_sample) |->
                            ScatterPoint(i - 1, spill_sample[i])]
    IN  [kind |-> "charts",
         spill_duration_distribution |->
            [buckets |-> [i \in 1..HIST_BUCKETS |->
                             BucketOf(durations, HIST_BUCKETS, i - 1)],
             total_spills |-> total,
             sample_size |-> Len(spill_sample),
             avg_duration |-> [num |-> SumTickDiff(spill_sample),
                               den |-> Len(durations)],
             min_duration |-> SeqMin(durations),
             max_duration |-> SeqMax(durations)],
         scatter_plot_data |->
            [data |-> scatter_data,
             total_points |-> Len(scatter_data)],
         pc_pattern_analysis |->
            [patterns |-> AnalyzePcPatterns(spill_sample),
             sample_size |-> Len(spill_sample)]]

\* _generate_lightweight_charts(spill_sample, total_spills)
generate_lightweight_charts(spill_sample, total) ==
    /\ pc = "idle"
    /\ args' = [op |-> "charts", spill_sample |-> spill_sample, total_spills |-> total]
    /\ IF spill_sample = <<>>
       THEN result' = NoCharts
       ELSE \E picks \in ChartPicks(Len(spill_sample)) :
                result' = ChartsOf([i \in 1..Len(picks) |-> spill_sample[picks[i]]],
                                   total)
    /\ pc' = "done"
    /\ io_failed' = FALSE
    /\ UNCHANGED <<fixed, line_num, scanned, items, next_offset, broke, pattern,
                   count, reservoir, delivered, buckets, pages, client, previous,
                   avars>>

\* records with the durations 0, 10 and 20, at three addresses
ChartA == SpillLine(T1("a"), T1("b"), T1("c"), T1("1"), T1("1"), T1("0"), T1("0"), T1("1"))
ChartB ==
    SpillLine(T1("B"), T1("b"), T1("d"), T1("2"), <<"1", "2">>, <<"1", "0">>, T1("2"), T1("3"))
ChartC ==
    SpillLine(T1("a"), T1("f"), T1("e"), T1("3"), <<"2", "3">>, <<"2", "0">>, T1("1"), T1("1"))
ChartEvents == {EventOf(ChartA), EventOf(ChartB), EventOf(ChartC)}

InitCharts ==
    /\ exists = TRUE
    /\ file = <<>>
    /\ InitLocals

NextCharts ==
    \E spill_sample \in SeqsUpTo(ChartEvents, MaxLines), more \in 0..1 :
        generate_lightweight_charts(spill_sample, Len(spill_sample) + more)

SpecCharts == InitCharts /\ [][NextCharts]_vars

AnalysisLines ==
    {CommentLine, ShortLine, GoodA, GoodB, GoodNeg, BadTickLate, IndentedGood}

InitAnalysis ==
    /\ exists = TRUE
    /\ file \in SeqsUpTo(AnalysisLines, MaxLines)
    /\ InitLocals

NextAnalysis ==
    \/ get_spill_analysis_data
    \/ AnalyzeSmall
    \/ SampledLoop
    \/ SampledReturn

SpecAnalysis == InitAnalysis /\ [][NextAnalysis]_vars

\* search and count over terms that are patterns, with and without use_regex
MatcherLines == {CommentLine, GoodA, GoodB, StarLine}
MatcherTerms ==
    {<<>>, T1("b"), T1("."), T1("("), <<"a", "*">>, <<"*", "a">>, <<"(", "*">>}

InitMatcher ==
    /\ file \in SeqsUpTo(MatcherLines, MaxLines)
    /\ exists = TRUE
    /\ InitLocals

NextMatcher ==
    \/ \E q \in MatcherTerms, field \in {"all", "mem"}, use_regex \in BOOLEAN :
            search_spills(q, field, 0, MaxLines, use_regex)
    \/ \E q \in MatcherTerms, field \in {"all", "mem"}, use_regex \in BOOLEAN :
            count_spills(q, field, 0, use_regex)
    \/ SearchLoop
    \/ SearchReturn
    \/ CountLoop
    \/ CountReturn

SpecMatcher == InitMatcher /\ [][NextMatcher]_vars

\* search and count over every field
FieldNames == {"all", "pc", "store_pc", "load_pc", "mem", "time", "id"}
FieldTerms == {T1("a"), T1("b"), T1("d"), T1("1"), T1("3"), T1("4")}

InitFields ==
    /\ file \in SeqsUpTo({CommentLine, GoodA, GoodB}, MaxLines)
    /\ exists = TRUE
    /\ InitLocals

NextFields ==
    \/ \E q \in FieldTerms, field \in FieldNames :
            search_spills(q, field, 0, MaxLines, FALSE)
    \/ \E q \in FieldTerms, field \in FieldNames :
            count_spills(q, field, 0, FALSE)
    \/ SearchLoop
    \/ SearchReturn
    \/ CountLoop
    \/ CountReturn

SpecFields == InitFields /\ [][NextFields]_vars

\* two calls, each of any of the five operations, in two threads
InitConcurrent ==
    /\ file \in SeqsUpTo({CommentLine, GoodA, GoodB}, MaxLines)
    /\ exists = TRUE
    /\ InitLocals

NextConcurrent ==
    \/ \E offset \in 0..1 : search_spills(T1("a"), "all", offset, 1, FALSE)
    \/ \E max_scan_lines \in 0..1 : count_spills(T1("a"), "all", max_scan_lines, FALSE)
    \/ sample_spills(1)
    \/ range_spills(None, Some(0), 0, 1)
    \/ get_spill_analysis_data
    \/ SearchLoop
    \/ SearchReturn
    \/ CountLoop
    \/ CountReturn
    \/ SampleLoop
    \/ SampleReturn
    \/ RangeLoop
    \/ RangeReturn
    \/ AnalyzeSmall
    \/ SampledLoop
    \/ SampledReturn
    \/ Switch

SpecConcurrent == InitConcurrent /\ [][NextConcurrent]_vars

\* count, and count again
NextRecount ==
    \/ \E q \in QueryTerms, field \in QueryFields, max_scan_lines \in 0..MaxArg :
            CountFirst(q, field, max_scan_lines, FALSE)
    \/ CountSecond
    \/ CountLoop
    \/ CountReturn

SpecRecount == InitQuery /\ [][NextRecount]_vars

\* every operation, with a log that may be missing and reads that may fail
FaultLines == {CommentLine, GoodA, GoodB, BadTick, BadCount}

InitFaults ==
    /\ file \in SeqsUpTo(FaultLines, MaxLines)
    /\ exists \in BOOLEAN
    /\ InitLocals

NextFaults ==
    \/ \E q \in QueryTerms, offset \in 0..1, limit \in 0..MaxArg :
            search_spills(q, "all", offset, limit, FALSE)
    \/ \E q \in QueryTerms, max_scan_lines \in 0..1 :
            count_spills(q, "all", max_scan_lines, FALSE)
    \/ \E n \in 0..1 : sample_spills(n)
    \/ \E max_store_inst \in {None, Some(0)}, offset \in 0..1, limit \in 0..MaxArg :
            range_spills(None, max_store_inst, offset, limit)
    \/ get_spill_analysis_data
    \/ SearchLoop
    \/ SearchReturn
    \/ CountLoop
    \/ CountReturn
    \/ SampleLoop
    \/ SampleReturn
    \/ RangeLoop
    \/ RangeReturn
    \/ AnalyzeSmall
    \/ SampledLoop
    \/ SampledReturn
    \/ IterReadFails
    \/ SizingReadFails
    \/ SmallReadFails
    \/ SampledReadFails

SpecFaults == InitFaults /\ [][NextFaults]_vars

\* every query and parse_spill_log, on files that mix records with comments,
\* short lines and records of another kind
ScanLines == {CommentLine, ShortLine, OtherLine, GoodA, GoodB}

InitScan ==
    /\ exists = TRUE
    /\ file \in SeqsUpTo(ScanLines, MaxLines)
    /\ InitLocals

NextScan ==
    \/ \E q \in QueryTerms, offset \in 0..1, limit \in 0..MaxArg :
            search_spills(q, "all", offset, limit, FALSE)
    \/ SearchLoop
    \/ SearchReturn
    \/ \E q \in QueryTerms, max_scan_lines \in 0..1 :
            count_spills(q, "all", max_scan_lines, FALSE)
    \/ CountLoop
    \/ CountReturn
    \/ \E n \in 0..1 : sample_spills(n)
    \/ SampleLoop
    \/ SampleReturn
    \/ \E max_store_inst \in {None, Some(0)}, offset \in 0..1, limit \in 0..MaxArg :
            range_spills(None, max_store_inst, offset, limit)
    \/ RangeLoop
    \/ RangeReturn
    \/ \E max_events \in 1..MaxArg : parse_spill_log(max_events)

SpecScan == InitScan /\ [][NextScan]_vars

\* sample and the analysis, on logs with three different records and one
\* whose store_tick is not a number
ReservoirLines == {CommentLine, GoodA, GoodB, GoodNeg, BadTickLate}

InitReservoir ==
    /\ exists = TRUE
    /\ file \in SeqsUpTo(ReservoirLines, MaxLines)
    /\ InitLocals

NextReservoir ==
    \/ \E n \in 0..MaxArg : sample_spills(n)
    \/ SampleLoop
    \/ SampleReturn
    \/ get_spill_analysis_data
    \/ AnalyzeSmall
    \/ SampledLoop
    \/ SampledReturn

SpecReservoir == InitReservoir /\ [][NextReservoir]_vars

\* search and then range, on logs whose every record is well formed
CompareLines == {CommentLine, OtherLine, GoodA, GoodB}

InitCompare ==
    /\ exists = TRUE
    /\ file \in SeqsUpTo(CompareLines, MaxLines)
    /\ InitLocals

NextCompare ==
    \/ \E offset \in 0..MaxArg, limit \in 0..MaxArg : SearchFirst(offset, limit)
    \/ RangeSecond
    \/ SearchLoop
    \/ SearchReturn
    \/ RangeLoop
    \/ RangeReturn

SpecCompare == InitCompare /\ [][NextCompare]_vars

\* every operation, one call at a time, on every modelled file
Init ==
    /\ exists = TRUE
    /\ file \in SeqsUpTo(QueryLines \cup RangeLines \cup AnalysisLines, MaxLines)
    /\ InitLocals

Next ==
    \/ NextSearch
    \/ NextCount
    \/ NextPaging
    \/ NextSample
    \/ NextRange
    \/ NextHist
    \/ NextAnalysis
    \/ NextScan
    \/ NextCharts

Spec == Init /\ [][Next]_vars

-----------------------------------------------------------------------------
(* What the claims compare the results with *)

\* the raw line numbers of the lines the scanner yields, in file order
YieldedIdx(f) ==
    LET Yields(k) == IterYields(f[k])
    IN  SelectSeq([k \in 1..Len(f) |-> k], Yields)

\* the raw line numbers of the lines that start with "SPILL,"
SpillIdx(f) ==
    LET Starts(k) == StartsWithSpill(f[k])
    IN  SelectSeq([k \in 1..Len(f) |-> k], Starts)

\* the first n elements of s, all of s when it is shorter
Take(s, n) == SubSeq(s, 1, Min(n, Len(s)))
\* s without its first n elements
Drop(s, n) == SubSeq(s, n + 1, Len(s))

Ids(its) == [i \in 1..Len(its) |-> its[i].id]
StrAll(idxs) == [i \in 1..Len(idxs) |-> Str(idxs[i])]

\* the yielded lines of the file that the running search's predicate matches
SearchMatching(idxs) ==
    LET Hit(k) == SearchMatches(args.q, args.field, pattern, file[k])
    IN  SelectSeq(idxs, Hit)

CountMatching(idxs) ==
    LET Hit(k) == CountMatches(args.q, args.field, pattern, file[k])
    IN  SelectSeq(idxs, Hit)

-----------------------------------------------------------------------------
(* C1 *)

\* C1: on a well-formed log and with limit >= 1, paging through search with
\* an empty term from offset 0 by next_offset until it is null returns in
\* total exactly count(term="").count items, which is the number of SPILL
\* lines: every record once, none twice.
C1_PagingReturnsEveryRecordOnce ==
    (client = "counting" /\ pc = "done" /\ WellFormed(file)) =>
        /\ result.kind = "count"
        /\ Len(pages) = result.count
        /\ result.count = Len(SpillIdx(file))
        /\ Ids(pages) = StrAll(SpillIdx(file))

-----------------------------------------------------------------------------
(* C2 *)

\* C2 as claimed: with a non-empty term, search skips exactly the first
\* `offset` records that match the predicate and returns the next
\* up-to-`limit` matching records in file order.
C2_SkipsMatchingRecords ==
    (result.kind = "search" /\ args.q # <<>> /\ args.limit >= 1) =>
        Ids(result.items)
            = StrAll(Take(Drop(SearchMatching(YieldedIdx(file)), args.offset),
                          args.limit))

\* C2 amended: with a non-empty term and limit >= 1, search skips exactly
\* the first `offset` scanned records, whether or not they match the
\* predicate, and the items it returns are the next up-to-`limit` matching
\* records in file order.
C2_SkipsScannedRecords ==
    (result.kind = "search" /\ args.q # <<>> /\ args.limit >= 1) =>
        Ids(result.items)
            = StrAll(Take(SearchMatching(Drop(YieldedIdx(file), args.offset)),
                          args.limit))

\* a search with a non-empty term whose skipped records include one that
\* does not match, and that returned a record
C2_Witness ==
    /\ result.kind = "search"
    /\ args.q # <<>>
    /\ args.limit >= 1
    /\ args.offset >= 1
    /\ Len(YieldedIdx(file)) > args.offset
    /\ SearchMatching(Take(YieldedIdx(file), args.offset))
            # Take(YieldedIdx(file), args.offset)
    /\ result.items # <<>>

-----------------------------------------------------------------------------
(* C3 *)

\* C3: for limit >= 1 a filled page (len(items) = limit) has next_offset =
\* offset + scanned_lines, a page the stream ended before filling has
\* next_offset = null, and next_offset is null iff len(items) < limit.
C3_NextOffset ==
    (result.kind = "search" /\ args.limit >= 1) =>
        /\ Len(result.items) = args.limit =>
                result.next_offset = Some(args.offset + result.scanned_lines)
        /\ Len(result.items) < args.limit => result.next_offset = None
        /\ result.next_offset = None <=> Len(result.items) < args.limit

\* a page filled from a positive offset
C3_Witness ==
    /\ result.kind = "search"
    /\ args.limit >= 1
    /\ args.offset >= 1
    /\ Len(result.items) = args.limit
    /\ result.next_offset # None

-----------------------------------------------------------------------------
(* C4 *)

\* C4: with max_scan_lines = m > 0 and N scannable records, count examines
\* exactly min(m, N) records, counts the matches among those only, and
\* reports partial = true exactly when N >= m.
C4_CountCap ==
    (result.kind = "count" /\ args.max_scan_lines > 0) =>
        LET N == Len(YieldedIdx(file))
            m == args.max_scan_lines
        IN  /\ result.scanned_lines = Min(m, N)
            /\ result.count = Len(CountMatching(Take(YieldedIdx(file), Min(m, N))))
            /\ result.partial = (N >= m)

\* a count stopped by the cap before the end of the records, with a record
\* left uncounted that would have matched
C4_Witness ==
    /\ result.kind = "count"
    /\ args.max_scan_lines > 0
    /\ Len(YieldedIdx(file)) > args.max_scan_lines
    /\ result.partial
    /\ result.count < Len(CountMatching(YieldedIdx(file)))

-----------------------------------------------------------------------------
(* C5 *)

\* C5: sample(k) returns exactly min(k, total) items for every k >= 0,
\* total being the number of SPILL records of the file, and reports
\* scanned_lines = total.
C5_SampleSize ==
    result.kind = "sample" =>
        /\ Len(result.items) = Min(args.n, Len(YieldedIdx(file)))
        /\ result.scanned_lines = Len(YieldedIdx(file))

\* a sample of fewer items than the file has records, after a replacement
C5_Witness ==
    /\ result.kind = "sample"
    /\ args.n >= 1
    /\ Len(YieldedIdx(file)) > args.n
    /\ Ids(result.items) # StrAll(Take(YieldedIdx(file), args.n))

-----------------------------------------------------------------------------
(* C6 *)

\* every sequence of draws a full pass over `total` records can make: the
\* draw for the record with 1-based ordinal sc ranges over SampleDrawRange(sc)
\* (a draw the code does not look at changes nothing and is counted for
\* every outcome alike)
AllDraws(total) ==
    {d \in [1..total -> 0..total] : \A sc \in 1..total : d[sc] \in SampleDrawRange(sc)}

RECURSIVE SampleRun(_, _, _, _)
\* the reservoir of sample(n) after the first k yielded lines, with draws d
SampleRun(idxs, n, d, k) ==
    IF k = 0 THEN <<>>
    ELSE ReservoirStep(SampleRun(idxs, n, d, k - 1), n,
                       ItemOf(idxs[k], file[idxs[k]]), d[k])

\* the number of draw sequences after which the line idx is in the sample
Chosen(idxs, n, idx) ==
    Cardinality({d \in AllDraws(Len(idxs)) :
                    \E i \in 1..Len(SampleRun(idxs, n, d, Len(idxs))) :
                        SampleRun(idxs, n, d, Len(idxs))[i].id = Str(idx)})

\* C6: after a full pass of sample(k) over `total` records every record is
\* in the returned items with probability min(1, k/total), whatever its
\* position: of all equally likely draw sequences, the share that keeps the
\* record is min(k, total) / total; and what the call returned is the
\* outcome of one of those sequences.
C6_UniformSample ==
    result.kind = "sample" =>
        LET idxs == YieldedIdx(file)
            total == Len(idxs)
        IN  /\ \A p \in 1..total :
                Chosen(idxs, args.n, idxs[p]) * total
                    = Min(args.n, total) * Cardinality(AllDraws(total))
            /\ \E d \in AllDraws(total) :
                result.items = SampleRun(idxs, args.n, d, total)

\* a sample that had to choose: more records than places, the last record
\* of the file kept and the first one dropped
C6_Witness ==
    /\ result.kind = "sample"
    /\ args.n >= 1
    /\ Len(YieldedIdx(file)) > args.n
    /\ \E i \in 1..Len(result.items) :
            result.items[i].id = Str(YieldedIdx(file)[Len(YieldedIdx(file))])
    /\ \A i \in 1..Len(result.items) :
            result.items[i].id # Str(YieldedIdx(file)[1])

-----------------------------------------------------------------------------
(* C9 *)

\* the records range is to return: store_inst_count is an integer that is
\* >= min unless min is omitted and <= max unless max is omitted
RangeWanted(idxs) ==
    LET Hit(k) ==
            LET v == ParseInt(Part(file[k], 7))
            IN  /\ v.ok
                /\ args.min_store_inst = None \/ args.min_store_inst[1] <= v.val
                /\ args.max_store_inst = None \/ v.val <= args.max_store_inst[1]
    IN  SelectSeq(idxs, Hit)

\* C9: range returns only records with min <= store_inst_count <= max, both
\* ends inclusive; an omitted bound does not restrict, a bound of 0 does:
\* the page is the next up-to-limit records in range after the offset.
C9_RangeBounds ==
    result.kind = "range" =>
        /\ \A i \in 1..Len(result.items) :
            /\ args.min_store_inst # None =>
                    args.min_store_inst[1] <= result.items[i].store_inst_count
            /\ args.max_store_inst # None =>
                    result.items[i].store_inst_count <= args.max_store_inst[1]
        /\ Ids(result.items)
            = StrAll(Take(RangeWanted(Drop(YieldedIdx(file), args.offset)),
                          args.limit))

\* a range query with max = 0 that returned a record and left out one whose
\* store_inst_count is above 0
C9_Witness ==
    /\ result.kind = "range"
    /\ args.max_store_inst = Some(0)
    /\ args.min_store_inst = None
    /\ args.offset = 0
    /\ Len(result.items) = 1
    /\ Len(result.items) < args.limit
    /\ \E k \in 1..Len(file) :
            /\ IterYields(file[k])
            /\ ParseInt(Part(file[k], 7)).ok
            /\ ParseInt(Part(file[k], 7)).val > 0

-----------------------------------------------------------------------------
(* C7, C8 *)

RECURSIVE SumCounts(_)
SumCounts(bs) == IF bs = <<>> THEN 0 ELSE bs[1].count + SumCounts(Tail(bs))

\* C7: for every non-empty list and bucket count n the counts of the n
\* buckets sum to len(list): every value is in exactly one bucket.
C7_CountsSumToLen ==
    (result.kind = "hist" /\ args.data # <<>>) =>
        /\ Len(result.buckets) = args.num_buckets
        /\ SumCounts(result.buckets) = Len(args.data)

\* C8: for every non-empty list the elements equal to the list's maximum
\* are counted in the last bucket, also when all values are equal.
C8_MaxInLastBucket ==
    (result.kind = "hist" /\ args.data # <<>>) =>
        result.buckets[args.num_buckets].count
            >= Cardinality({k \in 1..Len(args.data) : args.data[k] = SeqMax(args.data)})

-----------------------------------------------------------------------------
(* C10 *)

\* the statistics of a brute-force computation over every well-formed SPILL
\* record of the file: the small-dataset computation over all of them
BruteForce(f) == SpillAnalysisFull(ParseSpillLog(f, Len(f)), CountTotalSpills(f)).statistics

\* C10: in the large-dataset strategy the reported unique_memory_addresses,
\* unique_store_pcs, unique_load_pcs, max_spill_duration and
\* min_spill_duration equal those of a brute-force computation over every
\* well-formed SPILL record of the file, for any integer tick_diff values
\* and whatever the reservoir drew.
C10_SampledStatisticsExact ==
    (result.kind = "analysis" /\ result.sampled = Some(TRUE)) =>
        /\ result.statistics.unique_memory_addresses
                = BruteForce(file).unique_memory_addresses
        /\ result.statistics.unique_store_pcs = BruteForce(file).unique_store_pcs
        /\ result.statistics.unique_load_pcs = BruteForce(file).unique_load_pcs
        /\ result.statistics.max_spill_duration = BruteForce(file).max_spill_duration
        /\ result.statistics.min_spill_duration = BruteForce(file).min_spill_duration

-----------------------------------------------------------------------------
(* C11 *)

\* C11 as claimed: analyze reports sampled = true with sample_size <= the
\* sample capacity if and only if the sizing pass finds total_spills above
\* the threshold; at the threshold and below the report has sampled = false.
C11_SampledIffAboveThreshold ==
    result.kind = "analysis" =>
        /\ (/\ result.sampled = Some(TRUE)
            /\ result.sample_size # None
            /\ result.sample_size[1] <= SAMPLE_SIZE)
                <=> CountTotalSpills(file) > LARGE_DATASET
        /\ CountTotalSpills(file) <= LARGE_DATASET => result.sampled = Some(FALSE)

\* C11 amended: the report has sampled = true and sample_size <= the sample
\* capacity if and only if total_spills is above the threshold; at the
\* threshold and below the small-dataset strategy is used, whose report has
\* sampled = false when it retained a record and is the empty report, which
\* has no sampled field, when it retained none.
C11_SampledIffAboveThresholdOrEmpty ==
    result.kind = "analysis" =>
        /\ (/\ result.sampled = Some(TRUE)
            /\ result.sample_size # None
            /\ result.sample_size[1] <= SAMPLE_SIZE)
                <=> CountTotalSpills(file) > LARGE_DATASET
        /\ CountTotalSpills(file) <= LARGE_DATASET =>
            IF ParseSpillLog(file, CountTotalSpills(file)) # <<>>
            THEN result.sampled = Some(FALSE)
            ELSE result = EmptySpillAnalysis

\* a log with exactly the threshold's number of SPILL lines, analysed by the
\* small-dataset strategy
C11_Witness ==
    /\ result.kind = "analysis"
    /\ CountTotalSpills(file) = LARGE_DATASET
    /\ result.sampled = Some(FALSE)
    /\ result.statistics.total_spills = LARGE_DATASET

-----------------------------------------------------------------------------
(* C12 *)

\* the raw line numbers of the well-formed records as parse_spill_log sees
\* them: stripped, "SPILL," first, nine parts or more, integers in parts 4..8
WellFormedIdx(f) ==
    LET Good(k) ==
            LET line == StripParts(f[k])
            IN  /\ StartsWithSpill(line)
                /\ Len(line) >= 9
                /\ \A q \in 4..8 : ParseInt(Part(line, q)).ok
    IN  SelectSeq([k \in 1..Len(f) |-> k], Good)

RECURSIVE SumDurations(_, _)
\* the sum of tick_diff over the lines idxs of f
SumDurations(f, idxs) ==
    IF idxs = <<>> THEN 0
    ELSE ParseInt(Part(StripParts(f[idxs[1]]), 6)).val + SumDurations(f, Tail(idxs))

\* the report computed from the records kept of f, total being the sizing
\* pass's count
ReportOver(f, kept, total) ==
    IF kept = <<>> THEN EmptySpillAnalysis
    ELSE LET Field(q) == {Part(StripParts(f[kept[i]]), q) : i \in 1..Len(kept)}
             Durations == {ParseInt(Part(StripParts(f[kept[i]]), 6)).val : i \in 1..Len(kept)}
         IN  [kind |-> "analysis",
              spill_count |-> total,
              sampled |-> Some(FALSE),
              sample_size |-> None,
              statistics |->
                [total_spills |-> total,
                 avg_duration |-> [num |-> SumDurations(f, kept), den |-> Len(kept)],
                 unique_memory_addresses |-> Cardinality(Field(3)),
                 unique_store_pcs |-> Cardinality(Field(1)),
                 unique_load_pcs |-> Cardinality(Field(2)),
                 max_spill_duration |-> CHOOSE d \in Durations : \A o \in Durations : d >= o,
                 min_spill_duration |-> CHOOSE d \in Durations : \A o \in Durations : d <= o]]

\* C12 as claimed: in the small-dataset strategy, when total_spills exceeds
\* the default max_events, retention truncates at the first max_events
\* well-formed records and the statistics are computed from those only.
C12_TruncatesAtDefaultCap ==
    (/\ result.kind = "analysis"
     /\ CountTotalSpills(file) <= LARGE_DATASET
     /\ CountTotalSpills(file) > DEFAULT_MAX_EVENTS) =>
        result = ReportOver(file, Take(WellFormedIdx(file), DEFAULT_MAX_EVENTS),
                            CountTotalSpills(file))

\* C12 amended: in the small-dataset strategy the cap passed to
\* parse_spill_log is total_spills, not the default: the first total_spills
\* well-formed records in file order are retained, also above the default
\* cap, and the statistics are computed from those retained records.
C12_RetainsUpToTotal ==
    (result.kind = "analysis" /\ CountTotalSpills(file) <= LARGE_DATASET) =>
        result = ReportOver(file, Take(WellFormedIdx(file), CountTotalSpills(file)),
                            CountTotalSpills(file))

\* a small-dataset report computed from more records than the default cap
C12_Witness ==
    /\ result.kind = "analysis"
    /\ CountTotalSpills(file) <= LARGE_DATASET
    /\ CountTotalSpills(file) > DEFAULT_MAX_EVENTS
    /\ result.sampled = Some(FALSE)
    /\ result.statistics.avg_duration.den > DEFAULT_MAX_EVENTS

-----------------------------------------------------------------------------
(* C13 *)

\* a yielded line whose tick and count fields (parts 4..8) are all integers
WellFormedLine(parts) ==
    IterYields(parts) /\ \A q \in 4..8 : ParseInt(Part(parts, q)).ok

\* the ids of the well-formed records of the file
WellFormedIds(f) == {Str(k) : k \in {m \in 1..Len(f) : WellFormedLine(f[m])}}

\* C13: a SPILL line with a wrong field count or a non-numeric tick or count
\* field is silently skipped by count, search, sample and range: no call
\* raises, and the malformed record is neither counted nor returned.
C13_MalformedSkipped ==
    (pc = "done" /\ exists /\ ~io_failed
        /\ args.op \in {"count", "search", "sample", "range"}) =>
        /\ result.kind # "raised"
        /\ result.kind = "count" =>
                result.count <= Cardinality({k \in 1..Len(file) :
                    /\ WellFormedLine(file[k])
                    /\ CountMatches(args.q, args.field, pattern, file[k])})
        /\ result.kind \in {"search", "sample", "range"} =>
                \A i \in 1..Len(result.items) : result.items[i].id \in WellFormedIds(file)

-----------------------------------------------------------------------------
(* C14, C15 *)

\* the result the operation op gives for a missing file: nothing counted,
\* nothing scanned, no items, no next offset, the empty report
EmptyResultOf(op, r) ==
    /\ op = "count" =>
            r = [kind |-> "count", count |-> 0, scanned_lines |-> 0, partial |-> FALSE]
    /\ op \in {"search", "range"} =>
            /\ r.kind = op
            /\ r.items = <<>>
            /\ r.next_offset = None
    /\ op = "sample" => (r.kind = op /\ r.items = <<>>)
    /\ op = "analysis" => r = EmptySpillAnalysis

\* C14: when no log file exists, for any arguments, count returns count 0,
\* scanned_lines 0 and partial false; search, sample and range return no
\* items (search and range with next_offset null); analyze returns the empty
\* report; no operation raises.
C14_MissingFileGivesEmpty ==
    (pc = "done" /\ ~exists) => EmptyResultOf(args.op, result)

\* C15: when a read fails in the middle of a scan, count, search, sample,
\* range and analyze return the result they return for a missing file, not
\* what the scan gathered before the failure.
C15_ReadFailureGivesEmpty ==
    (pc = "done" /\ exists /\ io_failed) => EmptyResultOf(args.op, result)

-----------------------------------------------------------------------------
(* C16 *)

\* the matcher the claim describes, on one candidate string
ClaimedMatch(term, use_regex, c) ==
    IF term = <<>> THEN TRUE
    ELSE IF use_regex
    THEN (IF ReCompiles(term) THEN ReSearch(term, c)
          ELSE Contains(Lower(c), Lower(term)))
    ELSE IF HasStar(term) /\ ReCompiles(ReplaceStar(term))
    THEN ReSearch(ReplaceStar(term), c)
    ELSE Contains(Lower(c), Lower(term))

\* the yielded lines one of whose candidates the claimed matcher accepts
ClaimedHits(Candidates(_)) ==
    LET Hit(k) ==
            \/ args.q = <<>>
            \/ \E i \in 1..Len(Candidates(k)) :
                    ClaimedMatch(args.q, args.use_regex, Candidates(k)[i])
    IN  SelectSeq(YieldedIdx(file), Hit)

\* C16: search and count select the matcher alike, in this order: an empty
\* term matches every record; use_regex with a term that compiles is a
\* case-insensitive regex; otherwise a term with '*' whose rewriting ('*' to
\* '.*') compiles is a case-insensitive regex; otherwise, and whenever the
\* compilation fails, it is the case-insensitive substring test on the raw
\* term, and a use_regex term that fails is not tried again as a wildcard.
C16_MatcherPriority ==
    LET Candidates(k) == FieldCandidates(args.field, file[k])
    IN  /\ result.kind = "count" => result.count = Len(ClaimedHits(Candidates))
        /\ result.kind = "search" => Ids(result.items) = StrAll(ClaimedHits(Candidates))

\* a use_regex term with '*' that does not compile, counted as the raw text:
\* it is found in one record and a wildcard would have found more
C16_Witness ==
    /\ result.kind = "count"
    /\ args.use_regex
    /\ args.q = <<"*", "a">>
    /\ args.field = "all"
    /\ result.count = 1
    /\ Len(YieldedIdx(file)) = 3
    /\ \A k \in 1..Len(file) : file[k] \in {GoodA, StarLine}

-----------------------------------------------------------------------------
(* C17 *)

\* the parts the claim names as the candidates of a field
ClaimedParts(field) ==
    CASE field = "all" -> <<1, 2, 3, 4, 5, 6>>
      [] field = "pc" -> <<1, 2>>
      [] field = "store_pc" -> <<1>>
      [] field = "load_pc" -> <<2>>
      [] field = "mem" -> <<3>>
      [] field = "time" -> <<4, 5, 6>>

\* C17: for a non-empty term and a field of all, pc, store_pc, load_pc, mem,
\* time, a record matches iff one of the field's candidates matches: all =
\* store_pc, load_pc, memory_address, store_tick, load_tick, tick_diff; pc =
\* store_pc, load_pc; store_pc, load_pc, mem = that field; time = the three
\* ticks; never an instruction count; alike in search and count.
C17_FieldCandidates ==
    (result.kind \in {"count", "search"} /\ args.q # <<>> /\ args.field # "id") =>
        LET Candidates(k) ==
                [i \in 1..Len(ClaimedParts(args.field)) |->
                    Part(file[k], ClaimedParts(args.field)[i])]
        IN  /\ result.kind = "count" => result.count = Len(ClaimedHits(Candidates))
            /\ result.kind = "search" =>
                    Ids(result.items) = StrAll(ClaimedHits(Candidates))

\* field 'all' with a term that only an instruction count of the file
\* holds: nothing is counted
C17_Witness ==
    /\ result.kind = "count"
    /\ args.field = "all"
    /\ args.q = T1("3")
    /\ \E k \in 1..Len(file) : IterYields(file[k]) /\ Part(file[k], 8) = T1("3")
    /\ result.count = 0

-----------------------------------------------------------------------------
(* C18 *)

\* C18: with field = id and a non-empty term the predicate is tested against
\* the record's identity token, the line number that search returns as the
\* item's id, in search and in count alike.
C18_IdIsLineNumber ==
    (result.kind \in {"count", "search"} /\ args.q # <<>> /\ args.field = "id") =>
        LET Candidates(k) == <<Str(k)>>
        IN  /\ result.kind = "count" => result.count = Len(ClaimedHits(Candidates))
            /\ result.kind = "search" =>
                    Ids(result.items) = StrAll(ClaimedHits(Candidates))

-----------------------------------------------------------------------------
(* C19 *)

\* what count with the arguments a returns when it runs alone
AloneCount(a) ==
    LET Y == YieldedIdx(file)
        n == IF a.max_scan_lines > 0 THEN Min(a.max_scan_lines, Len(Y))
             ELSE IF a.max_scan_lines < 0 THEN Min(1, Len(Y))
             ELSE Len(Y)
        Hit(k) == CountMatches(a.q, a.field, CompilePattern(a.q, a.use_regex), file[k])
    IN  [kind |-> "count",
         count |-> Len(SelectSeq(Take(Y, n), Hit)),
         scanned_lines |-> n,
         partial |-> (a.max_scan_lines # 0 /\ n >= a.max_scan_lines)]

\* the page of a lone search or range over a well-formed log with limit >= 1:
\* wanted are the records it is to return, in file order, after the offset
AlonePage(a, wanted, Item(_)) ==
    LET Y == YieldedIdx(file)
        page == Take(wanted, a.limit)
        filled == Len(page) >= a.limit
        sc == IF filled THEN CHOOSE q \in 1..Len(Y) : Y[q] = page[Len(page)]
              ELSE Len(Y)
    IN  [kind |-> a.op,
         items |-> [i \in 1..Len(page) |-> Item(page[i])],
         next_offset |-> IF filled THEN Some(a.offset + sc) ELSE None,
         scanned_lines |-> sc]

AloneSearch(a) ==
    LET Hit(k) == SearchMatches(a.q, a.field, CompilePattern(a.q, a.use_regex), file[k])
        Item(k) == ItemOf(k, file[k])
    IN  AlonePage(a, SelectSeq(Drop(YieldedIdx(file), a.offset), Hit), Item)

AloneRange(a) ==
    LET Hit(k) ==
            /\ ParseInt(Part(file[k], 7)).ok
            /\ a.min_store_inst = None \/ a.min_store_inst[1] <= ParseInt(Part(file[k], 7)).val
            /\ a.max_store_inst = None \/ ParseInt(Part(file[k], 7)).val <= a.max_store_inst[1]
        Item(k) == RangeItemOf(k, file[k], ParseInt(Part(file[k], 7)).val)
    IN  AlonePage(a, SelectSeq(Drop(YieldedIdx(file), a.offset), Hit), Item)

\* r is what a lone sample(n) returns for one of its draw sequences
IsAloneSample(a, r) ==
    LET Y == YieldedIdx(file)
    IN  \E d \in AllDraws(Len(Y)) :
            r = [kind |-> "sample",
                 items |-> SampleRun(Y, a.n, d, Len(Y)),
                 scanned_lines |-> Len(Y)]

\* the report of a lone analyze over a well-formed log; above the threshold
\* the sample's size is the one thing the draws leave open, and it is fixed
AloneAnalysis ==
    LET T == CountTotalSpills(file)
        kept == WellFormedIdx(file)
        small == ReportOver(file, Take(kept, T), T)
    IN  IF T <= LARGE_DATASET THEN small
        ELSE [small EXCEPT !.sampled = Some(TRUE),
                           !.sample_size = Some(Min(SAMPLE_SIZE, Len(kept))),
                           !.statistics.avg_duration.den = T,
                           !.statistics.max_spill_duration = Max(0, @)]

IsAloneResult(a, r) ==
    CASE a.op = "count" -> r = AloneCount(a)
      [] a.op = "search" -> r = AloneSearch(a)
      [] a.op = "range" -> r = AloneRange(a)
      [] a.op = "sample" -> IsAloneSample(a, r)
      [] a.op = "analysis" -> r = AloneAnalysis

\* C19: count, search, sample, range and analyze change neither the file nor
\* anything that outlives the call, and whatever the interleaving of the
\* steps of two calls on the same file, each call returns what it returns
\* when it runs alone (for sample: with the draws it made).
C19_ReadOnlyAndIsolated ==
    /\ [](pc = "done" => IsAloneResult(args, result))
    /\ [][file' = file /\ exists' = exists]_vars

\* a call that ran to its end while the other call was set aside in the
\* middle of its scan, with lines read and lines still to read
C19_Witness ==
    /\ pc = "done"
    /\ args.op = "count"
    /\ result.count >= 1
    /\ suspended.pc = "search"
    /\ suspended.line_num >= 1
    /\ ~suspended.broke
    /\ NextYield(file, suspended.line_num) # 0

-----------------------------------------------------------------------------
(* C20 *)

\* C20: two count calls with the same term, field, use_regex and
\* max_scan_lines on an unmodified file return the same count,
\* scanned_lines and partial.
C20_CountIdempotent ==
    (client = "counting again" /\ pc = "done") =>
        /\ result.kind = "count"
        /\ previous.kind = "count"
        /\ result.count = previous.count
        /\ result.scanned_lines = previous.scanned_lines
        /\ result.partial = previous.partial

\* the second of two capped counts is done; both found a match and both
\* left records unscanned
C20_Witness ==
    /\ client = "counting again"
    /\ pc = "done"
    /\ args.max_scan_lines >= 1
    /\ previous.kind = "count"
    /\ previous.count >= 1
    /\ previous.partial
    /\ result.count >= 1
    /\ Len(YieldedIdx(file)) > args.max_scan_lines

-----------------------------------------------------------------------------
(* C21 *)

\* the item or event carries the fields of raw line k of the file
ItemFromLine(it, k) ==
    /\ StartsWithSpill(file[k])
    /\ Len(file[k]) >= 9
    /\ it.store_pc = Part(file[k], 1)
    /\ it.load_pc = Part(file[k], 2)
    /\ it.memory_address = Part(file[k], 3)

\* C21: every item of search, sample and range has as id the 1-based
\* position of its line among all the lines of the file, comments and other
\* lines counted; the ids of a search or range result increase strictly,
\* no two items of a result share an id, and the line_number of the events
\* of parse_spill_log is that position too, strictly increasing.
C21_IdsAreLinePositions ==
    /\ (pc = "done" /\ result.kind \in {"search", "sample", "range"}) =>
          LET its == result.items
          IN  /\ \A i \in 1..Len(its) :
                    \E k \in 1..Len(file) :
                        its[i].id = Str(k) /\ ItemFromLine(its[i], k)
              /\ \A i \in 1..Len(its), j \in 1..Len(its) :
                    i # j => its[i].id # its[j].id
              /\ result.kind \in {"search", "range"} =>
                    \A i \in 1..Len(its), j \in 1..Len(its) :
                        i < j => ParseInt(its[i].id).val < ParseInt(its[j].id).val
    /\ (pc = "done" /\ result.kind = "events") =>
          LET evs == result.events
          IN  /\ \A i \in 1..Len(evs) :
                    /\ evs[i].line_number \in 1..Len(file)
                    /\ ItemFromLine(evs[i], evs[i].line_number)
              /\ \A i \in 1..Len(evs), j \in 1..Len(evs) :
                    i < j => evs[i].line_number < evs[j].line_number

\* a search whose two items are lines 2 and 3 of a file that starts with a
\* comment
C21_Witness ==
    /\ pc = "done"
    /\ result.kind = "search"
    /\ Len(file) = 3
    /\ file[1] = CommentLine
    /\ Ids(result.items) = <<Str(2), Str(3)>>

-----------------------------------------------------------------------------
(* C22 *)

\* the lines among the first upto of f that start with "SPILL," and have
\* the nine fields of a record
RecordsUpTo(f, upto) ==
    Cardinality({k \in 1..upto : StartsWithSpill(f[k]) /\ Len(f[k]) >= 9})

\* C22: scanned_lines of count, search, sample and range is the number of
\* SPILL records the scan has examined, matched or not, and never the number
\* of raw lines read: at every step of the scan and in the result it is the
\* number of records among the lines read so far, and after a scan that ran
\* to the end of the file it is the number of records of the file.
C22_ScannedCountsRecords ==
    /\ pc \in {"search", "count", "sample", "range"} =>
          scanned = RecordsUpTo(file, line_num)
    /\ (pc = "done" /\ result.kind \in {"search", "count", "sample", "range"}) =>
          /\ result.scanned_lines = RecordsUpTo(file, line_num)
          /\ (\/ result.kind = "sample"
              \/ (result.kind = "count" /\ args.max_scan_lines = 0)
              \/ (result.kind \in {"search", "range"} /\ ~broke)) =>
                result.scanned_lines = RecordsUpTo(file, Len(file))

\* a count over three lines, one of them not a SPILL record, that examined
\* two records and matched one
C22_Witness ==
    /\ pc = "done"
    /\ result.kind = "count"
    /\ Len(file) = 3
    /\ \E k \in 1..3 : file[k] = OtherLine
    /\ result.scanned_lines = 2
    /\ result.count = 1

-----------------------------------------------------------------------------
(* C24 *)

\* C24: on a log whose every record is well formed, range with no bound
\* returns the ids, the scanned_lines and the next_offset that search with
\* an empty term returns for the same offset and limit.
C24_RangePagesLikeSearch ==
    (client = "ranging" /\ pc = "done") =>
        /\ previous.kind = "search"
        /\ result.kind = "range"
        /\ Ids(result.items) = Ids(previous.items)
        /\ result.scanned_lines = previous.scanned_lines
        /\ result.next_offset = previous.next_offset

\* both calls skipped a record, returned the next one and gave an offset to
\* go on from, on a file with a line that is not a record
C24_Witness ==
    /\ client = "ranging"
    /\ pc = "done"
    /\ args.offset = 1
    /\ Len(result.items) = 1
    /\ result.next_offset # None
    /\ \E k \in 1..Len(file) : file[k] = CommentLine

-----------------------------------------------------------------------------
(* C28 *)

\* C28: search and range return at most limit items, for every limit from
\* 0 on and every offset.
C28_AtMostLimitItems ==
    (pc = "done" /\ result.kind \in {"search", "range"}) =>
        Len(result.items) <= args.limit

-----------------------------------------------------------------------------
(* C23 *)

\* the raw line numbers, among the first upto lines, of the lines the
\* sampled analysis pass parses in full
ParsedUpTo(f, upto) ==
    LET Parsed(k) == /\ k <= upto
                     /\ SampledTakes(f[k])
                     /\ \A p \in 4..8 : ParseInt(Part(StripParts(f[k]), p)).ok
    IN  SelectSeq([k \in 1..Len(f) |-> k], Parsed)

\* the raw line numbers, among the first upto lines, of the lines the
\* scanner yields
YieldedUpTo(f, upto) ==
    LET Seen(k) == k <= upto /\ IterYields(f[k])
    IN  SelectSeq([k \in 1..Len(f) |-> k], Seen)

\* res holds, slot by slot, records of different lines among from;
\* Holds(r, k) says that r is the record of line k
DistinctFrom(res, from, Holds(_, _)) ==
    \E at \in [1..Len(res) -> {from[i] : i \in 1..Len(from)}] :
        /\ \A i \in 1..Len(res), j \in 1..Len(res) : i # j => at[i] # at[j]
        /\ \A i \in 1..Len(res) : Holds(res[i], at[i])

\* the reservoir of a sample(k) that has seen the records of lines seen
SampleReservoirOk(k, seen) ==
    LET IsItem(r, idx) == r = ItemOf(idx, file[idx])
    IN  /\ Len(reservoir) <= k
        /\ Len(reservoir) = Min(k, Len(seen))
        /\ Len(seen) <= k =>
              reservoir = [i \in 1..Len(seen) |-> ItemOf(seen[i], file[seen[i]])]
        /\ DistinctFrom(reservoir, seen, IsItem)

\* the reservoir of the sampled analysis pass that has parsed the lines seen
AnalysisReservoirOk(seen) ==
    LET IsEvent(r, idx) == r = EventOf(StripParts(file[idx]))
    IN  /\ Len(reservoir) <= SAMPLE_SIZE
        /\ event_idx = Len(seen)
        /\ Len(reservoir) = Min(SAMPLE_SIZE, Len(seen))
        /\ Len(seen) <= SAMPLE_SIZE =>
              reservoir = [i \in 1..Len(seen) |-> EventOf(StripParts(file[seen[i]]))]
        /\ DistinctFrom(reservoir, seen, IsEvent)

\* a record that finds the reservoir of capacity k full, i being its 0-based
\* ordinal: some j of 0..i is drawn and slot j takes the record when j < k
ReservoirOverwrite(k, i, record) ==
    \E j \in 0..i :
        reservoir' = IF j < k THEN [reservoir EXCEPT ![j + 1] = record]
                     ELSE reservoir

\* C23: in sample(k) and in the sampled analysis pass the reservoir follows
\* Algorithm R at every step: it never holds more than k records, the first
\* k records seen are stored in order in slots 0..k-1, a later record of
\* 0-based ordinal i >= k draws j in [0, i] and replaces slot j only when
\* j < k, and after any prefix the reservoir holds min(k, seen) records of
\* different lines, all among the records seen.
C23_AlgorithmR ==
    /\ [](/\ (pc = "sample" \/ (pc = "done" /\ result.kind = "sample")) =>
                SampleReservoirOk(args.n, YieldedUpTo(file, line_num))
          /\ (pc = "sampled" \/ (pc = "done" /\ result.kind = "analysis"
                                                /\ result.sampled = Some(TRUE))) =>
                AnalysisReservoirOk(ParsedUpTo(file, line_num)))
    /\ [][/\ (pc = "sample" /\ pc' = "sample" /\ scanned' = scanned + 1
                /\ scanned >= args.n) =>
                ReservoirOverwrite(args.n, scanned,
                                   ItemOf(line_num', file[line_num']))
          /\ (pc = "sampled" /\ event_idx' = event_idx + 1
                /\ event_idx >= SAMPLE_SIZE) =>
                ReservoirOverwrite(SAMPLE_SIZE, event_idx,
                                   EventOf(StripParts(file[line_num'])))]_vars

\* a sample of two that saw three records: the third has replaced the
\* second
C23_Witness ==
    /\ pc = "done"
    /\ result.kind = "sample"
    /\ args.n = 2
    /\ result.scanned_lines = 3
    /\ Ids(result.items) = <<Str(1), Str(3)>>

-----------------------------------------------------------------------------
(* C25 *)

\* the events of the lines idxs of f
EventsOf(f, idxs) == [i \in 1..Len(idxs) |-> EventOf(StripParts(f[idxs[i]]))]

\* C25: in the sampled analysis pass a SPILL line with a tick or count field
\* that is not an integer leaves no trace, whichever field it is: at every
\* step the sum, the minimum, the maximum, the three sets, the ordinal and
\* the size of the reservoir are those of the fully parsed lines read so far.
C25_MalformedLeavesNoTrace ==
    pc = "sampled" =>
        LET evs == EventsOf(file, ParsedUpTo(file, line_num))
            durations == {evs[i].tick_diff : i \in 1..Len(evs)}
        IN  /\ duration_sum = SumTickDiff(evs)
            /\ duration_min = IF evs = <<>> THEN Inf ELSE Some(SeqMin(TickDiffs(evs)))
            /\ duration_max = Max(0, IF evs = <<>> THEN 0 ELSE SeqMax(TickDiffs(evs)))
            /\ unique_memory_addrs = {evs[i].memory_address : i \in 1..Len(evs)}
            /\ unique_store_pcs = {evs[i].store_pc : i \in 1..Len(evs)}
            /\ unique_load_pcs = {evs[i].load_pc : i \in 1..Len(evs)}
            /\ event_idx = Len(evs)
            /\ Len(reservoir) = Min(SAMPLE_SIZE, Len(evs))

-----------------------------------------------------------------------------
(* C26 *)

\* C26: count called with max_scan_lines zero or negative applies no cap:
\* it examines every record of the file and returns partial = false.
C26_NoCapAtOrBelowZero ==
    (pc = "done" /\ result.kind = "count" /\ args.max_scan_lines <= 0) =>
        /\ result.scanned_lines = Len(YieldedIdx(file))
        /\ result.count = Len(CountMatching(YieldedIdx(file)))
        /\ ~result.partial

-----------------------------------------------------------------------------
(* C27 *)

\* the scatter point shows the event at position k of the collection
PointOfEvent(point, k) ==
    LET event == args.spill_sample[k]
    IN  /\ point.duration = event.tick_diff
        /\ point.store_inst = event.store_inst_count
        /\ point.load_inst = event.load_inst_count
        /\ point.pc = event.store_pc
        /\ point.memory_address = event.memory_address

\* C27: the charts are built from at most MAX_CHART_POINTS events: for a
\* collection of n events the histogram's sample_size and the scatter
\* list's total_points are both min(n, MAX_CHART_POINTS), and the charted
\* events are events at different positions of the collection passed in.
C27_ChartsCapped ==
    (pc = "done" /\ args.op = "charts") =>
        LET n == Len(args.spill_sample)
        IN  /\ n >= 1 => result.kind = "charts"
            /\ result.kind = "charts" =>
                LET data == result.scatter_plot_data.data
                IN  /\ result.spill_duration_distribution.sample_size
                            = Min(n, MAX_CHART_POINTS)
                    /\ result.scatter_plot_data.total_points = Min(n, MAX_CHART_POINTS)
                    /\ Len(data) = Min(n, MAX_CHART_POINTS)
                    /\ SumCounts(result.spill_duration_distribution.buckets)
                            <= MAX_CHART_POINTS
                    /\ DistinctFrom(data, [k \in 1..n |-> k], PointOfEvent)

\* a collection larger than the cap, charted from its last event on
C27_Witness ==
    /\ pc = "done"
    /\ result.kind = "charts"
    /\ Len(args.spill_sample) > MAX_CHART_POINTS
    /\ result.scatter_plot_data.total_points = MAX_CHART_POINTS
    /\ args.spill_sample[1] # args.spill_sample[Len(args.spill_sample)]
    /\ PointOfEvent(result.scatter_plot_data.data[1], Len(args.spill_sample))

-----------------------------------------------------------------------------
(* C29 *)

\* C29: in both strategies avg_spill_duration, before rounding, is the sum
\* of tick_diff over the well-formed records that were aggregated divided
\* by the number of those records, also when the file has SPILL lines that
\* are malformed or too short.
C29_AverageOverAggregated ==
    (pc = "done" /\ result.kind = "analysis" /\ result.sampled # None) =>
        LET aggregated ==
                IF result.sampled = Some(TRUE)
                THEN EventsOf(file, ParsedUpTo(file, Len(file)))
                ELSE ParseSpillLog(file, total_spills)
            avg == result.statistics.avg_duration
        IN  IF aggregated = <<>> THEN avg.num = 0
            ELSE avg.num * Len(aggregated) = SumTickDiff(aggregated) * avg.den

-----------------------------------------------------------------------------
(* C30 *)

\* C30: the total analyze reports, as spill_count and as
\* statistics.total_spills, is the count that count returns for the empty
\* term without a cap over the same file, also when the file has SPILL lines
\* of fewer than 9 fields.
C30_TotalIsCount ==
    (pc = "done" /\ result.kind = "analysis") =>
        LET counted == AloneCount([q |-> <<>>, field |-> "all", use_regex |-> FALSE,
                                   max_scan_lines |-> 0]).count
        IN  /\ result.spill_count = counted
            /\ result.statistics.total_spills = counted

=============================================================================
